---- MODULE Spec2Model ----
(***************************************************************************)
(* BishopForge: the position engine (board encoding, attack maps, pseudo-  *)
(* legal move generation, evaluation, batch driver, backend selection) and *)
(* the browser game state (engineClient over chess.js, gameState, events). *)
(***************************************************************************)
EXTENDS Integers, Sequences, FiniteSets, TLC

(***************************************************************************)
(* Board encoding                                                          *)
(***************************************************************************)
PIECE_NONE == 0
PIECE_PAWN == 1
PIECE_KNIGHT == 2
PIECE_BISHOP == 3
PIECE_ROOK == 4
PIECE_QUEEN == 5
PIECE_KING == 6

COLOR_EMPTY == -1
COLOR_WHITE == 0
COLOR_BLACK == 1

FLAG_NORMAL == 0
FLAG_CAPTURE == 1
FLAG_EN_PASSANT == 2
FLAG_CASTLE == 4
FLAG_DOUBLE_PUSH == 8

Squares == 0..63

Abs(x) == IF x < 0 THEN -x ELSE x

is_valid_square(sq) == sq >= 0 /\ sq < 64
get_rank(sq) == sq \div 8
get_file(sq) == sq % 8
make_square(rank, file) == rank * 8 + file

\* A move record is <<from, to, promotion, flags>>; a batch move record is
\* <<board index, from, to, promotion, flags>>.

\* Concatenation of f[lo], f[lo+1], ..., f[hi], each a sequence.
RECURSIVE ConcatRange(_, _, _)
ConcatRange(f, lo, hi) ==
  IF lo > hi THEN <<>> ELSE f[lo] \o ConcatRange(f, lo + 1, hi)

SeqRange(s) == {s[i] : i \in 1..Len(s)}

(***************************************************************************)
(* Square / ray geometry                                                   *)
(***************************************************************************)
KnightOffsets == <<-17, -15, -10, -6, 6, 10, 15, 17>>
KingOffsets == <<-9, -8, -7, -1, 1, 7, 8, 9>>
BishopDirections == <<-9, -7, 7, 9>>
RookDirections == <<-8, -1, 1, 8>>
QueenDirections == BishopDirections \o RookDirections

\* Targets of the fixed offsets that stay on the board and do not wrap
\* around an edge (file distance at most maxFileDelta), in offset order.
OffsetTargets(sq, offsets, maxFileDelta) ==
  LET ok(i) == /\ is_valid_square(sq + offsets[i])
               /\ Abs(get_file(sq + offsets[i]) - get_file(sq)) <= maxFileDelta
  IN  ConcatRange([i \in 1..Len(offsets) |->
                     IF ok(i) THEN <<sq + offsets[i]>> ELSE <<>>],
                  1, Len(offsets))

get_knight_attacks(sq) == OffsetTargets(sq, KnightOffsets, 2)
get_king_attacks(sq) == OffsetTargets(sq, KingOffsets, 1)

\* Pawns attack the two forward diagonals of their colour.
PawnDir(color) == IF color = COLOR_WHITE THEN 8 ELSE -8
get_pawn_attacks(sq, color) ==
  OffsetTargets(sq, <<PawnDir(color) - 1, PawnDir(color) + 1>>, 1)

\* A ray walk without the file-wrap test.
RECURSIVE get_ray_attacks_wrapping(_, _, _)
get_ray_attacks_wrapping(sq, direction, piece_arr) ==
  LET nxt == sq + direction IN
  IF ~is_valid_square(nxt)
  THEN <<>>
  ELSE IF piece_arr[nxt] # PIECE_NONE
       THEN <<nxt>>
       ELSE <<nxt>> \o get_ray_attacks_wrapping(nxt, direction, piece_arr)

\* Walk sq += direction until the board ends, the file wraps, or an occupied
\* square is reached (which is included).
RECURSIVE get_ray_attacks(_, _, _)
get_ray_attacks(sq, direction, piece_arr) ==
  LET nxt == sq + direction IN
  IF ~is_valid_square(nxt) \/ Abs(get_file(nxt) - get_file(sq)) > 1
  THEN <<>>
  ELSE IF piece_arr[nxt] # PIECE_NONE
       THEN <<nxt>>
       ELSE <<nxt>> \o get_ray_attacks(nxt, direction, piece_arr)

SlidingAttacks(sq, directions, piece_arr) ==
  ConcatRange([i \in 1..Len(directions) |->
                 get_ray_attacks(sq, directions[i], piece_arr)],
              1, Len(directions))

get_bishop_attacks(sq, piece_arr) == SlidingAttacks(sq, BishopDirections, piece_arr)
get_rook_attacks(sq, piece_arr) == SlidingAttacks(sq, RookDirections, piece_arr)
get_queen_attacks(sq, piece_arr) == SlidingAttacks(sq, QueenDirections, piece_arr)

\* The squares the piece standing on sq attacks, whatever their occupancy.
PieceAttacks(sq, piece_arr, color_arr) ==
  CASE piece_arr[sq] = PIECE_PAWN   -> get_pawn_attacks(sq, color_arr[sq])
    [] piece_arr[sq] = PIECE_KNIGHT -> get_knight_attacks(sq)
    [] piece_arr[sq] = PIECE_BISHOP -> get_bishop_attacks(sq, piece_arr)
    [] piece_arr[sq] = PIECE_ROOK   -> get_rook_attacks(sq, piece_arr)
    [] piece_arr[sq] = PIECE_QUEEN  -> get_queen_attacks(sq, piece_arr)
    [] piece_arr[sq] = PIECE_KING   -> get_king_attacks(sq)
    [] OTHER -> <<>>

(***************************************************************************)
(* Attack map generator (scalar strategy)                                  *)
(***************************************************************************)
\* An attack map with its polarity reversed: true where nothing attacks.
AttackedByInverted(side, piece_arr, color_arr) ==
  LET targets == UNION {SeqRange(PieceAttacks(s, piece_arr, color_arr)) :
                          s \in {q \in Squares : color_arr[q] = side}}
  IN  [t \in Squares |-> t \notin targets]

\* An attack map that leaves out the squares the side's own pieces stand on.
AttackedByExcludingOwn(side, piece_arr, color_arr) ==
  LET targets == UNION {SeqRange(PieceAttacks(s, piece_arr, color_arr)) :
                          s \in {q \in Squares : color_arr[q] = side}}
  IN  [t \in Squares |-> t \in targets /\ color_arr[t] # side]

AttackedBy(side, piece_arr, color_arr) ==
  LET targets == UNION {SeqRange(PieceAttacks(s, piece_arr, color_arr)) :
                          s \in {q \in Squares : color_arr[q] = side}}
  IN  [t \in Squares |-> t \in targets]

compute_attack_maps(piece_arr, color_arr) ==
  <<AttackedBy(COLOR_WHITE, piece_arr, color_arr),
    AttackedBy(COLOR_BLACK, piece_arr, color_arr)>>

(***************************************************************************)
(* Move generator (scalar strategy)                                        *)
(***************************************************************************)
PromotionPieces == <<PIECE_KNIGHT, PIECE_BISHOP, PIECE_ROOK, PIECE_QUEEN>>
LastRank(color) == IF color = COLOR_WHITE THEN 7 ELSE 0
PawnStartRank(color) == IF color = COLOR_WHITE THEN 1 ELSE 6

\* A pawn reaching its farthest rank always becomes a queen.
PawnRecordsQueenOnly(from, to, flags, color) ==
  IF get_rank(to) = LastRank(color)
  THEN <<<<from, to, PIECE_QUEEN, flags>>>>
  ELSE <<<<from, to, 0, flags>>>>

\* One record, or the four promotion records when the pawn reaches its
\* farthest rank.
PawnRecords(from, to, flags, color) ==
  IF get_rank(to) = LastRank(color)
  THEN [i \in 1..4 |-> <<from, to, PromotionPieces[i], flags>>]
  ELSE <<<<from, to, 0, flags>>>>

\* Pawn moves without the two-square push from the starting rank.
generate_pawn_moves_single_push(sq, piece_arr, color_arr, stm) ==
  LET one == sq + PawnDir(stm)
      push == IF is_valid_square(one) /\ piece_arr[one] = PIECE_NONE
              THEN PawnRecords(sq, one, FLAG_NORMAL, stm) ELSE <<>>
      diag == get_pawn_attacks(sq, stm)
      caps == ConcatRange([i \in 1..Len(diag) |->
                IF color_arr[diag[i]] = 1 - stm
                THEN PawnRecords(sq, diag[i], FLAG_CAPTURE, stm) ELSE <<>>],
                1, Len(diag))
  IN  push \o caps

generate_pawn_moves(sq, piece_arr, color_arr, stm) ==
  LET dir == PawnDir(stm)
      one == sq + dir
      two == sq + 2 * dir
      push == IF is_valid_square(one) /\ piece_arr[one] = PIECE_NONE
              THEN PawnRecords(sq, one, FLAG_NORMAL, stm) ELSE <<>>
      double == IF /\ get_rank(sq) = PawnStartRank(stm)
                   /\ is_valid_square(two)
                   /\ piece_arr[one] = PIECE_NONE
                   /\ piece_arr[two] = PIECE_NONE
                THEN <<<<sq, two, 0, FLAG_DOUBLE_PUSH>>>> ELSE <<>>
      diag == get_pawn_attacks(sq, stm)
      caps == ConcatRange([i \in 1..Len(diag) |->
                IF color_arr[diag[i]] = 1 - stm
                THEN PawnRecords(sq, diag[i], FLAG_CAPTURE, stm) ELSE <<>>],
                1, Len(diag))
  IN  push \o double \o caps

\* TargetMoves without the own-piece test: any occupied target is a capture.
TargetMovesAnyCapture(sq, targets, color_arr, stm) ==
  [i \in 1..Len(targets) |->
     <<sq, targets[i], 0,
       IF color_arr[targets[i]] = COLOR_EMPTY THEN FLAG_NORMAL ELSE FLAG_CAPTURE>>]

\* Knight, king and sliding pieces: every attacked square that is empty or
\* holds an enemy piece (a ray already ends at its first occupied square).
TargetMoves(sq, targets, color_arr, stm) ==
  ConcatRange([i \in 1..Len(targets) |->
     IF color_arr[targets[i]] = COLOR_EMPTY
     THEN <<<<sq, targets[i], 0, FLAG_NORMAL>>>>
     ELSE IF color_arr[targets[i]] # stm
          THEN <<<<sq, targets[i], 0, FLAG_CAPTURE>>>>
          ELSE <<>>],
     1, Len(targets))

\* Moves of a piece with a castling record for a king on its home square.
PieceMovesWithCastling(sq, piece_arr, color_arr, stm) ==
  IF color_arr[sq] # stm THEN <<>>
  ELSE IF piece_arr[sq] = PIECE_PAWN
       THEN generate_pawn_moves(sq, piece_arr, color_arr, stm)
       ELSE TargetMoves(sq, PieceAttacks(sq, piece_arr, color_arr), color_arr, stm)
            \o (IF piece_arr[sq] = PIECE_KING /\ sq \in {4, 60}
                THEN <<<<sq, sq + 2, 0, FLAG_CASTLE>>>> ELSE <<>>)

PieceMoves(sq, piece_arr, color_arr, stm) ==
  IF color_arr[sq] # stm THEN <<>>
  ELSE IF piece_arr[sq] = PIECE_PAWN
       THEN generate_pawn_moves(sq, piece_arr, color_arr, stm)
       ELSE TargetMoves(sq, PieceAttacks(sq, piece_arr, color_arr), color_arr, stm)

generate_pseudo_legal_moves(piece_arr, color_arr, stm) ==
  ConcatRange([sq \in Squares |-> PieceMoves(sq, piece_arr, color_arr, stm)], 0, 63)

(***************************************************************************)
(* Evaluator (scalar strategy)                                             *)
(***************************************************************************)
PieceValues == <<100, 320, 330, 500, 900, 0>>
MOBILITY_WEIGHT == 1
PAWN_SHIELD_BONUS == 10

\* Sum of f[s] over the squares lo..63.
RECURSIVE SumSquares(_, _)
SumSquares(f, lo) == IF lo > 63 THEN 0 ELSE f[lo] + SumSquares(f, lo + 1)

Material(side, piece_arr, color_arr) ==
  SumSquares([s \in Squares |->
                IF color_arr[s] = side THEN PieceValues[piece_arr[s]] ELSE 0], 0)

\* A count that leaves out the square ahead of a black pawn.
count_piece_mobility_white_push(sq, piece_arr, color_arr) ==
  LET ahead == sq + 8
  IN  Len(PieceAttacks(sq, piece_arr, color_arr))
        + (IF /\ piece_arr[sq] = PIECE_PAWN
              /\ color_arr[sq] = COLOR_WHITE
              /\ is_valid_square(ahead)
              /\ piece_arr[ahead] = PIECE_NONE
           THEN 1 ELSE 0)

\* _count_piece_mobility: the squares the piece reaches by its attack rule,
\* whatever stands on them, and for a pawn also the square ahead when it is
\* empty.  It reproduces the scores the project reports: 4046 for either
\* side of the starting position, 4053 for White after e2-e3 and after
\* e2-e4, 4047 after Ng1-h3 and 4051 after Ng1-f3.
count_piece_mobility(sq, piece_arr, color_arr) ==
  LET ahead == sq + PawnDir(color_arr[sq])
  IN  Len(PieceAttacks(sq, piece_arr, color_arr))
        + (IF /\ piece_arr[sq] = PIECE_PAWN
              /\ is_valid_square(ahead)
              /\ piece_arr[ahead] = PIECE_NONE
           THEN 1 ELSE 0)

Mobility(side, piece_arr, color_arr) ==
  MOBILITY_WEIGHT *
    SumSquares([s \in Squares |->
                  IF color_arr[s] = side
                  THEN count_piece_mobility(s, piece_arr, color_arr) ELSE 0], 0)

\* A king's safety starts from KING_SAFETY_BASE (130 is reported for the
\* starting position, three shield pawns) and gains PAWN_SHIELD_BONUS for
\* every own pawn on the three squares directly in front of the king.
KING_SAFETY_BASE == 100

KingSafety(side, piece_arr, color_arr) ==
  LET kings == {s \in Squares : piece_arr[s] = PIECE_KING /\ color_arr[s] = side}
      front(k) == SeqRange(OffsetTargets(k,
                     <<PawnDir(side) - 1, PawnDir(side), PawnDir(side) + 1>>, 1))
      shield == {t \in UNION {front(k) : k \in kings} :
                   piece_arr[t] = PIECE_PAWN /\ color_arr[t] = side}
  IN  IF kings = {} THEN 0
      ELSE KING_SAFETY_BASE + PAWN_SHIELD_BONUS * Cardinality(shield)

evaluate(piece_arr, color_arr) ==
  <<Material(COLOR_WHITE, piece_arr, color_arr) + Mobility(COLOR_WHITE, piece_arr, color_arr),
    KingSafety(COLOR_WHITE, piece_arr, color_arr),
    Material(COLOR_BLACK, piece_arr, color_arr) + Mobility(COLOR_BLACK, piece_arr, color_arr),
    KingSafety(COLOR_BLACK, piece_arr, color_arr)>>

(***************************************************************************)
(* Data-parallel strategy (engine_gpu.py)                                  *)
(***************************************************************************)
\* Single-board operations copy the board to the host and delegate to the
\* scalar algorithm.
gpu_compute_attack_maps(piece_arr, color_arr) == compute_attack_maps(piece_arr, color_arr)
\* A single-board evaluation that takes ten points per piece for mobility
\* instead of delegating.
gpu_evaluate_piece_count(piece_arr, color_arr) ==
  LET pieces(side) == Cardinality({s \in Squares : color_arr[s] = side})
  IN  <<Material(COLOR_WHITE, piece_arr, color_arr) + 10 * pieces(COLOR_WHITE),
        KingSafety(COLOR_WHITE, piece_arr, color_arr),
        Material(COLOR_BLACK, piece_arr, color_arr) + 10 * pieces(COLOR_BLACK),
        KingSafety(COLOR_BLACK, piece_arr, color_arr)>>

gpu_evaluate(piece_arr, color_arr) == evaluate(piece_arr, color_arr)
gpu_generate_pseudo_legal_moves(piece_arr, color_arr, stm) ==
  generate_pseudo_legal_moves(piece_arr, color_arr, stm)

\* The knight kernel without the file-distance test.
compute_knight_attacks_wrapping(piece_arr, color_arr, side) ==
  {sq + KnightOffsets[i] : <<sq, i>> \in
     {x \in Squares \X (1..8) :
        /\ piece_arr[x[1]] = PIECE_KNIGHT
        /\ color_arr[x[1]] = side
        /\ x[1] + KnightOffsets[x[2]] >= 0
        /\ x[1] + KnightOffsets[x[2]] < 64}}

\* One lane per (board, square): a lane holding a knight marks its targets.
compute_knight_attacks(piece_arr, color_arr, side) ==
  {sq + KnightOffsets[i] : <<sq, i>> \in
     {x \in Squares \X (1..8) :
        /\ piece_arr[x[1]] = PIECE_KNIGHT
        /\ color_arr[x[1]] = side
        /\ x[1] + KnightOffsets[x[2]] >= 0
        /\ x[1] + KnightOffsets[x[2]] < 64
        /\ Abs(((x[1] + KnightOffsets[x[2]]) % 8) - (x[1] % 8)) <= 2}}

\* King and pawn kernels, and the host fallback for the sliding pieces.
LaneAttacks(piece_arr, color_arr, side, kinds) ==
  UNION {SeqRange(PieceAttacks(s, piece_arr, color_arr)) :
           s \in {q \in Squares : color_arr[q] = side /\ piece_arr[q] \in kinds}}

gpu_attack_map(piece_arr, color_arr, side) ==
  LET marked == compute_knight_attacks(piece_arr, color_arr, side)
                \cup LaneAttacks(piece_arr, color_arr, side, {PIECE_KING})
                \cup LaneAttacks(piece_arr, color_arr, side, {PIECE_PAWN})
                \cup LaneAttacks(piece_arr, color_arr, side,
                                 {PIECE_BISHOP, PIECE_ROOK, PIECE_QUEEN})
  IN  [t \in Squares |-> t \in marked]

gpu_compute_attack_maps_batch(piece_batch, color_batch) ==
  <<[i \in 1..Len(piece_batch) |-> gpu_attack_map(piece_batch[i], color_batch[i], COLOR_WHITE)],
    [i \in 1..Len(piece_batch) |-> gpu_attack_map(piece_batch[i], color_batch[i], COLOR_BLACK)]>>

\* Vectorized evaluation: material by table lookup, mobility as ten points
\* per piece of the side, king safety by pawn-shield count.
GPU_MOBILITY_PER_PIECE == 10
gpu_mobility(side, piece_arr, color_arr) ==
  Cardinality({s \in Squares : color_arr[s] = side /\ piece_arr[s] > 0})
    * GPU_MOBILITY_PER_PIECE

gpu_evaluate_batch(piece_batch, color_batch) ==
  LET N == Len(piece_batch)
      off(side) == [i \in 1..N |-> Material(side, piece_batch[i], color_batch[i])
                                   + gpu_mobility(side, piece_batch[i], color_batch[i])]
      def(side) == [i \in 1..N |-> KingSafety(side, piece_batch[i], color_batch[i])]
  IN  <<off(COLOR_WHITE), def(COLOR_WHITE), off(COLOR_BLACK), def(COLOR_BLACK)>>

\* One move list per board, each record prefixed with the 0-based board index.
\* IndexedMoves numbering the boards from one.
IndexedMovesFromOne(i, moves) ==
  [k \in 1..Len(moves) |-> <<i>> \o moves[k]]

IndexedMoves(i, moves) ==
  [k \in 1..Len(moves) |-> <<i - 1>> \o moves[k]]

\* Host fallback into a per-board buffer, then compaction by prefix sum:
\* the output has exactly sum(move_counts) rows, possibly none.
gpu_generate_moves_batch(piece_batch, color_batch, stm_batch) ==
  LET N == Len(piece_batch)
      buffer == [i \in 1..N |-> IndexedMoves(i,
                   generate_pseudo_legal_moves(piece_batch[i], color_batch[i], stm_batch[i]))]
  IN  [ok |-> TRUE, moves |-> ConcatRange(buffer, 1, N)]

(***************************************************************************)
(* Batch driver (engine_batch.py)                                          *)
(***************************************************************************)
\* Loop over the boards calling the single-board method of the selected
\* engine class; with the GPU engine the native batch method is used.
compute_attack_maps_batch(gpu, piece_batch, color_batch) ==
  IF gpu THEN gpu_compute_attack_maps_batch(piece_batch, color_batch)
  ELSE <<[i \in 1..Len(piece_batch) |-> compute_attack_maps(piece_batch[i], color_batch[i])[1]],
         [i \in 1..Len(piece_batch) |-> compute_attack_maps(piece_batch[i], color_batch[i])[2]]>>

evaluate_batch(gpu, piece_batch, color_batch) ==
  IF gpu THEN gpu_evaluate_batch(piece_batch, color_batch)
  ELSE [c \in 1..4 |-> [i \in 1..Len(piece_batch) |->
                          evaluate(piece_batch[i], color_batch[i])[c]]]

\* Boards without moves are skipped; concatenating an empty list of arrays
\* raises ValueError.
cpu_generate_moves_batch(piece_batch, color_batch, stm_batch) ==
  LET N == Len(piece_batch)
      single == [i \in 1..N |->
                   generate_pseudo_legal_moves(piece_batch[i], color_batch[i], stm_batch[i])]
      moves_accum == SelectSeq([i \in 1..N |-> IndexedMoves(i, single[i])],
                               LAMBDA a : Len(a) # 0)
  IN  IF Len(moves_accum) = 0
      THEN [ok |-> FALSE, moves |-> <<>>]
      ELSE [ok |-> TRUE, moves |-> ConcatRange(moves_accum, 1, Len(moves_accum))]

generate_moves_batch(gpu, piece_batch, color_batch, stm_batch) ==
  IF gpu THEN gpu_generate_moves_batch(piece_batch, color_batch, stm_batch)
  ELSE cpu_generate_moves_batch(piece_batch, color_batch, stm_batch)

(***************************************************************************)
(* Backend selection (backend.py) and the public wrapper (engine.py)       *)
(***************************************************************************)
VARIABLES
  GPU,             \* backend.py: TRUE iff CuPy initialised at import
  force_cpu_mode,  \* opponent.py: the flag the GPU toggle endpoint sets
  piece_batch,     \* the caller's piece arrays, one per board
  color_batch,     \* the caller's color arrays
  stm_batch,       \* the caller's side to move, one per board
  budget,          \* calls the caller still makes in this behaviour
  op,              \* the operation of the last completed call
  via,             \* the engine class that served it: "cpu" or "gpu"
  out,             \* its result
  previous,        \* history variable: <<op, out>> of the call before it
  \* the frontend: engineClient.js and gameState.js
  loadReturnsBoolean, \* the installed chess.js: load() answers true / false
                      \* (early releases), or returns nothing and throws
  game,            \* engineClient: the Chess instance
  config,          \* gameState: the rules configuration
  status,          \* gameState: the cached status
  opponentEnabled,
  opponentProfile,
  moveStartTime,
  moveTimings,
  now,             \* the last value Date.now() returned
  emitted,         \* the events the last operation emitted, in order
  beforeMove,      \* history variable: <<s>> after an applyMove that succeeded
                   \* from getters s, <<s, s>> after the requestUndo that
                   \* directly followed it succeeded, <<>> otherwise
  \* the views: boardView.js, statusView.js, controlsView.js
  selectedSquare,     \* boardView: the square selected, NoSquare for null
  highlightedTargets, \* boardView: the squares drawn as move targets
  messages,           \* statusView: the messages kept, newest first
  showMessages,       \* statusView: the "Show Messages" box
  handler,            \* the handler of the views that ran last
  clicks,             \* the handlers of the views run so far
  posted,             \* history variable: the messages pushed since the last
                      \* status:clear, newest first
  gpuStatus,          \* controlsView: the GPU status held, NoStatus for null
  gpuChk,             \* controlsView: what the "Use GPU" box shows
  requests,           \* the requests of the "Use GPU" box on their way
  handlers,           \* eventBus: the Map from event to the Set of handlers
  invoked,            \* the handler calls the last emit made, in order
  busOp,              \* the last call of the bus: on, off or emit
  passed              \* boardView: what the last click passed to applyMove

engineVars == <<GPU, force_cpu_mode, piece_batch, color_batch, stm_batch, budget, op, via,
                out, previous>>
busVars == <<handlers, invoked, busOp>>
viewVars == <<selectedSquare, highlightedTargets, messages, showMessages, handler,
              clicks, posted, gpuStatus, gpuChk, requests, busVars, passed>>
gameVars == <<loadReturnsBoolean, game, config, status, opponentEnabled,
              opponentProfile, moveStartTime, moveTimings, now, emitted, beforeMove,
              viewVars>>

\* Engine = EngineGPU if GPU else EngineCPU
Engine == IF GPU THEN "gpu" ELSE "cpu"

\* A call that hands the arrays back cleared.
ReturnedClearingInput(name, route, result) ==
  /\ budget > 0
  /\ budget' = budget - 1
  /\ op' = name
  /\ via' = route
  /\ out' = result
  /\ previous' = <<op, out>>
  /\ piece_batch' = [i \in 1..Len(piece_batch) |-> [s \in Squares |-> PIECE_NONE]]
  /\ UNCHANGED <<GPU, force_cpu_mode, color_batch, stm_batch, gameVars>>

Returned(name, route, result) ==
  /\ budget > 0
  /\ budget' = budget - 1
  /\ op' = name
  /\ via' = route
  /\ out' = result
  /\ previous' = <<op, out>>
  /\ UNCHANGED <<GPU, force_cpu_mode, piece_batch, color_batch, stm_batch, gameVars>>

attack_maps_single ==
  /\ Len(piece_batch) = 1
  /\ Returned("attack_maps", Engine,
       IF GPU THEN gpu_compute_attack_maps(piece_batch[1], color_batch[1])
       ELSE compute_attack_maps(piece_batch[1], color_batch[1]))

evaluate_position_single ==
  /\ Len(piece_batch) = 1
  /\ Returned("evaluate", Engine,
       IF GPU THEN gpu_evaluate(piece_batch[1], color_batch[1])
       ELSE evaluate(piece_batch[1], color_batch[1]))

generate_moves_single ==
  /\ Len(piece_batch) = 1
  /\ Returned("generate_moves", Engine,
       IF GPU THEN gpu_generate_pseudo_legal_moves(piece_batch[1], color_batch[1], stm_batch[1])
       ELSE generate_pseudo_legal_moves(piece_batch[1], color_batch[1], stm_batch[1]))

attack_maps_batch ==
  Returned("attack_maps_batch", Engine,
           compute_attack_maps_batch(GPU, piece_batch, color_batch))

evaluate_position_batch ==
  Returned("evaluate_batch", Engine, evaluate_batch(GPU, piece_batch, color_batch))

generate_moves_batch_call ==
  Returned("generate_moves_batch", Engine,
           generate_moves_batch(GPU, piece_batch, color_batch, stm_batch))

(***************************************************************************)
(* Opponent router (routers/opponent.py): GPU status and toggle            *)
(***************************************************************************)
\* A toggle that overwrites the selected backend instead of setting the flag.
gpu_toggle_reselects(enable) ==
  /\ budget > 0
  /\ budget' = budget - 1
  /\ GPU' = enable
  /\ op' = "gpu_toggle"
  /\ via' = "none"
  /\ out' = enable
  /\ previous' = <<op, out>>
  /\ UNCHANGED <<force_cpu_mode, piece_batch, color_batch, stm_batch, gameVars>>

\* POST /opponent/gpu-toggle?enable=...
gpu_toggle(enable) ==
  /\ budget > 0
  /\ budget' = budget - 1
  /\ force_cpu_mode' = ~enable
  /\ op' = "gpu_toggle"
  /\ via' = "none"
  /\ out' = enable
  /\ previous' = <<op, out>>
  /\ UNCHANGED <<GPU, piece_batch, color_batch, stm_batch, gameVars>>

GpuEnabled == GPU /\ ~force_cpu_mode

\* GET /opponent/gpu-status
gpu_status ==
  /\ budget > 0
  /\ budget' = budget - 1
  /\ op' = "gpu_status"
  /\ via' = "none"
  /\ out' = [gpu_available |-> GPU, gpu_enabled |-> GpuEnabled]
  /\ previous' = <<op, out>>
  /\ UNCHANGED <<GPU, force_cpu_mode, piece_batch, color_batch, stm_batch, gameVars>>

\* POST /opponent/move: the position is evaluated on the CPU engine when
\* CPU mode is forced, even if the GPU engine was selected.
opponent_evaluate ==
  /\ Len(piece_batch) = 1
  /\ Returned("opponent_evaluate",
              IF GpuEnabled THEN "gpu" ELSE "cpu",
              IF GpuEnabled THEN gpu_evaluate(piece_batch[1], color_batch[1])
              ELSE evaluate(piece_batch[1], color_batch[1]))

(***************************************************************************)
(* chess.js: the rules library behind engineClient.  Squares are numbered  *)
(* a1 = 0 .. h8 = 63; a piece is its FEN letter, an empty square is ".".   *)
(* A FEN is the tuple of its six fields, the placement field a sequence of *)
(* eight rows of piece letters and digit characters.                       *)
(***************************************************************************)
WhitePieces == {"P", "N", "B", "R", "Q", "K"}
BlackPieces == {"p", "n", "b", "r", "q", "k"}
NoPiece == "."
Lower == [P |-> "p", N |-> "n", B |-> "b", R |-> "r", Q |-> "q", K |-> "k"]
Upper == [p |-> "P", n |-> "N", b |-> "B", r |-> "R", q |-> "Q", k |-> "K"]

ColorOf(p) == IF p \in WhitePieces THEN "w" ELSE IF p \in BlackPieces THEN "b" ELSE "-"
TypeOf(p) == IF p \in WhitePieces THEN Lower[p] ELSE p
PieceOf(color, type) == IF color = "w" THEN Upper[type] ELSE type
swapColor(color) == IF color = "w" THEN "b" ELSE "w"

Digits == <<"1", "2", "3", "4", "5", "6", "7", "8">>
FileNames == <<"a", "b", "c", "d", "e", "f", "g", "h">>
algebraic(sq) == <<FileNames[get_file(sq) + 1], Digits[get_rank(sq) + 1]>>

DEFAULT_POSITION ==
  << << <<"r", "n", "b", "q", "k", "b", "n", "r">>,
        <<"p", "p", "p", "p", "p", "p", "p", "p">>,
        <<"8">>, <<"8">>, <<"8">>, <<"8">>,
        <<"P", "P", "P", "P", "P", "P", "P", "P">>,
        <<"R", "N", "B", "Q", "K", "B", "N", "R">> >>,
     "w", <<"K", "Q", "k", "q">>, <<"-">>, 0, 1 >>

\* The squares one placement row describes, digits expanded to empty squares.
RECURSIVE ExpandRow(_)
ExpandRow(row) ==
  LET r == row
  IN  IF r = <<>> THEN <<>>
      ELSE IF \E n \in 1..8 : Digits[n] = Head(r)
           THEN [k \in 1..(CHOOSE n \in 1..8 : Digits[n] = Head(r)) |-> NoPiece]
                \o ExpandRow(Tail(r))
           ELSE <<Head(r)>> \o ExpandRow(Tail(r))

\* validateFen, as far as every release checks it: six fields, eight rows,
\* eight squares a row of piece letters, a side to move, sane counters.
validateFen(fen) ==
  /\ Len(fen) = 6
  /\ Len(fen[1]) = 8
  /\ \A i \in 1..8 :
       /\ Len(ExpandRow(fen[1][i])) = 8
       /\ \A c \in SeqRange(ExpandRow(fen[1][i])) :
            c \in WhitePieces \cup BlackPieces \cup {NoPiece}
  /\ fen[2] \in {"w", "b"}
  /\ fen[5] >= 0
  /\ fen[6] > 0

\* One placement row of fen(): runs of empty squares become a digit.
RECURSIVE EncodeRow(_, _)
EncodeRow(cells, run) ==
  LET c == cells
      n == run
  IN  IF c = <<>> THEN (IF n > 0 THEN <<Digits[n]>> ELSE <<>>)
      ELSE IF Head(c) = NoPiece THEN EncodeRow(Tail(c), n + 1)
      ELSE (IF n > 0 THEN <<Digits[n]>> ELSE <<>>)
           \o <<Head(c)>> \o EncodeRow(Tail(c), 0)

\* fen(): the six fields of the current position.
Chess_fen(game_) ==
  LET g == game_
  IN  << [i \in 1..8 |->
            EncodeRow([f \in 1..8 |-> g.board[make_square(8 - i, f - 1)]], 0)],
         g.turn,
         IF g.castling = {} THEN <<"-">>
         ELSE SelectSeq(<<"K", "Q", "k", "q">>, LAMBDA c : c \in g.castling),
         IF g.epSquare = -1 THEN <<"-">> ELSE algebraic(g.epSquare),
         g.halfMoves,
         g.moveNumber >>

Sign(x) == IF x > 0 THEN 1 ELSE IF x < 0 THEN -1 ELSE 0
Max(a, b) == IF a >= b THEN a ELSE b
Forward(color) == IF color = "w" THEN 8 ELSE -8

\* The piece on square s attacks square t: the piece's geometry, and for a
\* sliding piece no blocker strictly between the two squares.
Attacks(board, s, t) ==
  LET p == board[s]
      df == get_file(t) - get_file(s)
      dr == get_rank(t) - get_rank(s)
      n == Max(Abs(df), Abs(dr))
      step == Sign(dr) * 8 + Sign(df)
      clear == \A k \in 1..(n - 1) : board[s + k * step] = NoPiece
      diag == Abs(df) = Abs(dr) /\ n > 0
      line == (df = 0) # (dr = 0)
      type == TypeOf(p)
  IN  CASE type = "p" -> Abs(df) = 1 /\ dr = (IF p = "P" THEN 1 ELSE -1)
        [] type = "n" -> {Abs(df), Abs(dr)} = {1, 2}
        [] type = "k" -> n = 1
        [] type = "b" -> diag /\ clear
        [] type = "r" -> line /\ clear
        [] type = "q" -> (diag \/ line) /\ clear
        [] OTHER -> FALSE

\* _attacked(color, square): some piece of that color attacks the square.
attacked(board, color, sq) ==
  \E s \in Squares : ColorOf(board[s]) = color /\ Attacks(board, s, sq)

\* _isKingAttacked(color)
isKingAttacked(board, color) ==
  LET b == board
  IN  \E s \in Squares :
        b[s] = PieceOf(color, "k") /\ attacked(b, swapColor(color), s)

\* The flags the move generator gives the pseudo-legal move from -> to of
\* the side to move ("n" normal, "b" two-square pawn push, "c" capture,
\* "e" en passant, "p" promotion, "k" / "q" castling), {} if it has none.
PseudoFlags(g, from, to) ==
  LET b == g.board
      p == b[from]
      us == g.turn
      them == swapColor(us)
      df == get_file(to) - get_file(from)
      dr == get_rank(to) - get_rank(from)
      fwd == IF us = "w" THEN 1 ELSE -1
      promo == IF get_rank(to) = (IF us = "w" THEN 7 ELSE 0) THEN {"p"} ELSE {}
      free(squares) == \A x \in squares : b[x] = NoPiece
      safe(squares) == \A x \in squares : ~attacked(b, them, x)
  IN  IF ColorOf(p) # us \/ from = to THEN {}
      ELSE CASE TypeOf(p) = "p" ->
                  IF df = 0 /\ dr = fwd /\ b[to] = NoPiece THEN {"n"} \cup promo
                  ELSE IF /\ df = 0 /\ dr = 2 * fwd
                          /\ get_rank(from) = (IF us = "w" THEN 1 ELSE 6)
                          /\ free({from + 8 * fwd, to}) THEN {"b"}
                  ELSE IF Abs(df) = 1 /\ dr = fwd /\ ColorOf(b[to]) = them
                       THEN {"c"} \cup promo
                  ELSE IF Abs(df) = 1 /\ dr = fwd /\ to = g.epSquare THEN {"e"}
                  ELSE {}
             [] /\ TypeOf(p) = "k" /\ to = from + 2 /\ dr = 0
                /\ PieceOf(us, "k") \in g.castling
                /\ free({from + 1, to}) /\ safe({from, from + 1, to}) -> {"k"}
             [] /\ TypeOf(p) = "k" /\ to = from - 2 /\ dr = 0
                /\ PieceOf(us, "q") \in g.castling
                /\ free({from - 1, from - 2, from - 3})
                /\ safe({from, from - 1, to}) -> {"q"}
             [] OTHER ->
                  IF Attacks(b, from, to) /\ ColorOf(b[to]) # us
                  THEN (IF b[to] = NoPiece THEN {"n"} ELSE {"c"})
                  ELSE {}

\* The internal move the generator builds for from -> to.
BuildMove(g, from, to, promotion) ==
  LET fl == PseudoFlags(g, from, to)
  IN  [color     |-> g.turn,
       from      |-> from,
       to        |-> to,
       piece     |-> TypeOf(g.board[from]),
       captured  |-> IF "e" \in fl THEN "p"
                     ELSE IF g.board[to] # NoPiece THEN TypeOf(g.board[to])
                     ELSE "-",
       promotion |-> IF "p" \in fl THEN promotion ELSE "-",
       flags     |-> fl]

\* The castling right a rook's home square carries.
RookRight(sq) ==
  CASE sq = 0 -> {"Q"} [] sq = 7 -> {"K"} [] sq = 56 -> {"q"} [] sq = 63 -> {"k"}
    [] OTHER -> {}

\* The board after the move: the piece on its target (as the promotion
\* piece if it promotes), the en passant victim gone, the castled rook moved.
MovedBoard(board, move) ==
  LET b == board
      m == move
      us == m.color
  IN  [sq \in Squares |->
         IF sq = m.to
         THEN PieceOf(us, IF m.promotion # "-" THEN m.promotion ELSE m.piece)
         ELSE IF sq = m.from THEN NoPiece
         ELSE IF "e" \in m.flags /\ sq = m.to - Forward(us) THEN NoPiece
         ELSE IF "k" \in m.flags /\ sq = m.to + 1 THEN NoPiece
         ELSE IF "k" \in m.flags /\ sq = m.to - 1 THEN PieceOf(us, "r")
         ELSE IF "q" \in m.flags /\ sq = m.to - 2 THEN NoPiece
         ELSE IF "q" \in m.flags /\ sq = m.to + 1 THEN PieceOf(us, "r")
         ELSE b[sq]]

\* A generated move is legal when making it leaves the mover's king
\* unattacked.
IsLegal(g, from, to) ==
  /\ PseudoFlags(g, from, to) # {}
  /\ ~isKingAttacked(MovedBoard(g.board, BuildMove(g, from, to, "q")), g.turn)

\* _moves().length > 0.  The search tries the one-square pawn pushes first.
HasLegalMove(g) ==
  \E from \in Squares :
    /\ ColorOf(g.board[from]) = g.turn
    /\ \E to \in Squares : IsLegal(g, from, to)

\* Whether the side to move is attacked (inCheck) and whether _moves() is
\* empty (noMoves) are recorded in the position when it is produced, so that
\* the status queries of one position are not each a new search.
Searched(position) ==
  LET g == position
  IN  [g EXCEPT !.inCheck = isKingAttacked(g.board, g.turn),
                !.noMoves = ~HasLegalMove(g)]

\* load(fen): the position a valid FEN describes, with an empty history.
Chess_load(fen) ==
  LET rows == [i \in 1..8 |-> ExpandRow(fen[1][i])]
  IN  Searched(
        [board     |-> [sq \in Squares |-> rows[8 - get_rank(sq)][get_file(sq) + 1]],
         turn      |-> fen[2],
         castling  |-> SeqRange(fen[3]) \ {"-"},
         epSquare  |-> IF fen[4] = <<"-">> THEN -1
                       ELSE CHOOSE sq \in Squares : algebraic(sq) = fen[4],
         halfMoves |-> fen[5],
         moveNumber |-> fen[6],
         history   |-> <<>>,
         inCheck   |-> FALSE,
         noMoves   |-> FALSE])

\* new Chess()
Chess_new == Chess_load(DEFAULT_POSITION)

\* _makeMove(move): push the undo record, move the pieces, update castling
\* rights, the en passant square and the counters, pass the turn.
Chess_makeMove(chess, move) ==
  LET g == chess
      m == move
      us == m.color
  IN  Searched(
      [board |-> MovedBoard(g.board, m),
       turn |-> swapColor(us),
       castling |->
         ((g.castling
             \ (IF m.piece = "k" THEN {PieceOf(us, "k"), PieceOf(us, "q")} ELSE {}))
             \ (RookRight(m.from) \cap {PieceOf(us, "k"), PieceOf(us, "q")}))
             \ (RookRight(m.to) \cap {PieceOf(swapColor(us), "k"),
                                      PieceOf(swapColor(us), "q")}),
       epSquare |-> IF "b" \in m.flags THEN m.to - Forward(us) ELSE -1,
       halfMoves |-> IF m.piece = "p" \/ m.captured # "-" THEN 0
                     ELSE g.halfMoves + 1,
       moveNumber |-> IF us = "b" THEN g.moveNumber + 1 ELSE g.moveNumber,
       history |-> Append(g.history,
                          [move |-> m, turn |-> g.turn, castling |-> g.castling,
                           epSquare |-> g.epSquare, halfMoves |-> g.halfMoves,
                           moveNumber |-> g.moveNumber]),
       inCheck |-> FALSE,
       noMoves |-> FALSE])

\* _undoMove(): pop the undo record, restore the saved fields, move the
\* piece back as its old type, put back what it captured and the castled rook.
Chess_undoMove(chess) ==
  LET g == chess
      old == g.history[Len(g.history)]
      m == old.move
      us == m.color
      them == swapColor(us)
      b == g.board
  IN  Searched(
      [board |->
         [sq \in Squares |->
            IF sq = m.from THEN PieceOf(us, m.piece)
            ELSE IF sq = m.to
                 THEN (IF m.captured # "-" /\ ~("e" \in m.flags)
                       THEN PieceOf(them, m.captured) ELSE NoPiece)
            ELSE IF "e" \in m.flags /\ sq = m.to - Forward(us) THEN PieceOf(them, "p")
            ELSE IF "k" \in m.flags /\ sq = m.to + 1 THEN PieceOf(us, "r")
            ELSE IF "k" \in m.flags /\ sq = m.to - 1 THEN NoPiece
            ELSE IF "q" \in m.flags /\ sq = m.to - 2 THEN PieceOf(us, "r")
            ELSE IF "q" \in m.flags /\ sq = m.to + 1 THEN NoPiece
            ELSE b[sq]],
       turn |-> old.turn,
       castling |-> old.castling,
       epSquare |-> old.epSquare,
       halfMoves |-> old.halfMoves,
       moveNumber |-> old.moveNumber,
       history |-> SubSeq(g.history, 1, Len(g.history) - 1),
       inCheck |-> FALSE,
       noMoves |-> FALSE])

\* moves({verbose: true}): every legal move, a promotion once per piece.
Chess_moves(g) ==
  {BuildMove(g, x[1], x[2], x[3]) :
     x \in {y \in Squares \X Squares \X {"q", "r", "b", "n"} :
              /\ ColorOf(g.board[y[1]]) = g.turn
              /\ IsLegal(g, y[1], y[2])
              /\ ("p" \in PseudoFlags(g, y[1], y[2]) \/ y[3] = "q")}}

Chess_isCheck(g) == g.inCheck
Chess_isCheckmate(g) == Chess_isCheck(g) /\ g.noMoves
Chess_isStalemate(g) == ~Chess_isCheck(g) /\ g.noMoves

\* K v K, K+minor v K, or kings and bishops all on one square color.
Chess_isInsufficientMaterial(g) ==
  LET occupied == {s \in Squares : g.board[s] # NoPiece}
      of(type) == {s \in occupied : TypeOf(g.board[s]) = type}
      shade(s) == (get_rank(s) + get_file(s)) % 2
  IN  \/ Cardinality(occupied) = 2
      \/ Cardinality(occupied) = 3 /\ Cardinality(of("b") \cup of("n")) = 1
      \/ /\ Cardinality(occupied) = Cardinality(of("b")) + 2
         /\ \A s, t \in of("b") : shade(s) = shade(t)

\* The positions of the game so far, the current one first.
RECURSIVE PositionsPlayed(_)
PositionsPlayed(chess) ==
  LET g == chess
  IN  <<SubSeq(Chess_fen(g), 1, 4)>>
        \o (IF g.history = <<>> THEN <<>> ELSE PositionsPlayed(Chess_undoMove(g)))

\* A position cannot have occurred three times in fewer than eight moves.
Chess_isThreefoldRepetition(g) ==
  /\ Len(g.history) >= 8
  /\ \E played \in {PositionsPlayed(g)} :
       Len(SelectSeq(played, LAMBDA k : k = played[1])) >= 3

Chess_isDraw(g) ==
  \/ g.halfMoves >= 100
  \/ Chess_isStalemate(g)
  \/ Chess_isInsufficientMaterial(g)
  \/ Chess_isThreefoldRepetition(g)

Chess_isGameOver(g) == Chess_isCheckmate(g) \/ Chess_isStalemate(g) \/ Chess_isDraw(g)

\* move() once the generated move m with these squares is at hand.
Chess_moveFound(g, from, to, promotion, m) ==
  IF /\ IsLegal(g, from, to)
     /\ ("p" \in m.flags => promotion \in {"q", "r", "b", "n"})
  THEN [ok |-> TRUE, move |-> m, game |-> Chess_makeMove(g, m)]
  ELSE [ok |-> FALSE, game |-> g]

\* move({from, to, promotion}): the generated legal move with these squares,
\* whose promotion piece, if it has one, is the one asked for; null (or, in
\* later releases, an exception) when there is none.
Chess_move(g, from, to, promotion) ==
  LET m == BuildMove(g, from, to, promotion)
  IN  Chess_moveFound(g, from, to, promotion, m)

(***************************************************************************)
(* The FEN strings the callers of newGame pass                             *)
(***************************************************************************)
\* 4k2n/P2p1p2/8/3pP3/8/8/8/R3K2R w KQ d6 0 1
FenPromotionCastleEnPassant ==
  << << <<"4", "k", "2", "n">>, <<"P", "2", "p", "1", "p", "2">>, <<"8">>,
        <<"3", "p", "P", "3">>,
        <<"8">>, <<"8">>, <<"8">>, <<"R", "3", "K", "2", "R">> >>,
     "w", <<"K", "Q">>, <<"d", "6">>, 0, 1 >>

\* rnb1kbnr/pppp1ppp/8/4p3/6Pq/5P2/PPPPP2P/RNBQKBNR w KQkq - 1 3
FenFoolsMate ==
  << << <<"r", "n", "b", "1", "k", "b", "n", "r">>,
        <<"p", "p", "p", "p", "1", "p", "p", "p">>,
        <<"8">>, <<"4", "p", "3">>, <<"6", "P", "q">>, <<"5", "P", "2">>,
        <<"P", "P", "P", "P", "P", "2", "P">>,
        <<"R", "N", "B", "Q", "K", "B", "N", "R">> >>,
     "w", <<"K", "Q", "k", "q">>, <<"-">>, 1, 3 >>

\* 4k3/8/8/8/8/8/8/4K3 w - - 0 1
FenBareKings ==
  << << <<"4", "k", "3">>, <<"8">>, <<"8">>, <<"8">>, <<"8">>, <<"8">>, <<"8">>,
        <<"4", "K", "3">> >>,
     "w", <<"-">>, <<"-">>, 0, 1 >>

\* seven rows: 8/8/8/8/8/8/8 w - - 0 1
FenSevenRows ==
  << << <<"8">>, <<"8">>, <<"8">>, <<"8">>, <<"8">>, <<"8">>, <<"8">> >>,
     "w", <<"-">>, <<"-">>, 0, 1 >>

FenInputs == {FenPromotionCastleEnPassant, FenFoolsMate, FenBareKings, FenSevenRows}

\* load() of each valid FEN among them, computed once.
Loaded == [fen \in {f \in FenInputs : validateFen(f)} |-> Chess_load(fen)]

(***************************************************************************)
(* engineClient.js (createEngineClient)                                    *)
(***************************************************************************)
getDefaultConfig == [highlight_valid_moves |-> TRUE, allow_takeback |-> TRUE]

mergeConfig(base, patch) ==
  [k \in DOMAIN base \cup DOMAIN patch |->
     IF k \in DOMAIN patch THEN patch[k] ELSE base[k]]

\* initGame(initialFen): a FEN that does not load throws and leaves the
\* current game in place; so does every FEN when load() returns nothing.
initGame(hasFen, initialFen) ==
  IF ~hasFen THEN [threw |-> FALSE, game |-> Chess_new]
  ELSE IF ~validateFen(initialFen)
       THEN [threw |-> TRUE,
             error |-> IF loadReturnsBoolean THEN "Invalid FEN in initGame"
                       ELSE "Invalid FEN"]
  ELSE IF loadReturnsBoolean
       THEN [threw |-> FALSE, game |-> Loaded[initialFen]]
  ELSE [threw |-> TRUE, error |-> "Invalid FEN in initGame"]

getFen(g) == Chess_fen(g)

getStatus(chess) ==
  LET g == chess
  IN  [turn        |-> g.turn,
       isCheck     |-> Chess_isCheck(g),
       isCheckmate |-> Chess_isCheckmate(g),
       isStalemate |-> Chess_isStalemate(g),
       isDraw      |-> Chess_isDraw(g)]

\* history({verbose: true}): the moves made, oldest first.
getHistory(g) == [i \in 1..Len(g.history) |-> g.history[i].move]

getLegalMoves(g, hasFrom, fromSquare) ==
  IF ~hasFrom THEN Chess_moves(g)
  ELSE {m \in Chess_moves(g) : m.from = fromSquare}

\* makeMove reading the status before it moves.
makeMoveStatusBefore(g, from, to, promotion) ==
  IF Chess_isGameOver(g)
  THEN [res |-> [success |-> FALSE, reason |-> "game_over"], game |-> g]
  ELSE LET r == Chess_move(g, from, to, promotion)
       IN  IF ~r.ok
           THEN [res |-> [success |-> FALSE, reason |-> "illegal"], game |-> g]
           ELSE [res |-> [success |-> TRUE, move |-> r.move,
                          status |-> getStatus(g)],
                 game |-> r.game]

\* makeMove without the isGameOver() test of its first line.
makeMoveNoGameOverTest(g, from, to, promotion) ==
  LET r == Chess_move(g, from, to, promotion)
  IN  IF ~r.ok
      THEN [res |-> [success |-> FALSE, reason |-> "illegal"], game |-> g]
      ELSE [res |-> [success |-> TRUE, move |-> r.move,
                     status |-> getStatus(r.game)],
            game |-> r.game]

\* What makeMove returns once game.move() has answered r: "illegal" for
\* no move, else the move and the status read after it.
makeMoveReturn(g, r) ==
  IF ~r.ok
  THEN [res |-> [success |-> FALSE, reason |-> "illegal"], game |-> g]
  ELSE [res |-> [success |-> TRUE, move |-> r.move, status |-> getStatus(r.game)],
        game |-> r.game]

\* makeMove(from, to, promotion): the result object and the game afterwards.
\* promotion is "-" when the caller passes none.
makeMove(g, from, to, promotion) ==
  IF Chess_isGameOver(g)
  THEN [res |-> [success |-> FALSE, reason |-> "game_over"], game |-> g]
  ELSE LET r == Chess_move(g, from, to, promotion)
       IN  makeMoveReturn(g, r)

\* undoMove reading the status before it takes the move back.
undoMoveStatusBefore(g) ==
  IF g.history = <<>>
  THEN [res |-> [success |-> FALSE, reason |-> "no_move"], game |-> g]
  ELSE [res |-> [success |-> TRUE, move |-> g.history[Len(g.history)].move,
                 status |-> getStatus(g)],
        game |-> Chess_undoMove(g)]

\* undoMove that starts a new game when there is no move to take back.
undoMoveResetsWhenEmpty(g) ==
  IF g.history = <<>>
  THEN [res |-> [success |-> FALSE, reason |-> "no_move"], game |-> Chess_new]
  ELSE LET undone == Chess_undoMove(g)
       IN  [res |-> [success |-> TRUE, move |-> g.history[Len(g.history)].move,
                     status |-> getStatus(undone)],
            game |-> undone]

\* What undoMove returns once game.undo() has taken the move back and left
\* the game undone: the move and the status read after it.
undoMoveReturn(move, undone) ==
  [res |-> [success |-> TRUE, move |-> move, status |-> getStatus(undone)],
   game |-> undone]

undoMove(g) ==
  IF g.history = <<>>
  THEN [res |-> [success |-> FALSE, reason |-> "no_move"], game |-> g]
  ELSE LET undone == Chess_undoMove(g)
       IN  undoMoveReturn(g.history[Len(g.history)].move, undone)

(***************************************************************************)
(* gameState.js (createGameState)                                          *)
(***************************************************************************)
MaxHistory == 2
MaxTimings == 2
MaxNow == 1

\* Date.now(): not earlier than the last reading.
Clock == {t \in now..(now + 1) : t <= MaxNow}

emitState(g, st) ==
  [event   |-> "gameStateChanged",
   payload |-> [fen |-> getFen(g), status |-> st, history |-> getHistory(g)]]

emitConfig(cfg) == [event |-> "configChanged", payload |-> cfg]

\* What getFen(), getStatus() and getHistory() of gameState return.
Getters == [fen |-> getFen(game), status |-> status, history |-> getHistory(game)]

\* The backend is not involved in an operation on gameState.
backendIdle ==
  UNCHANGED <<GPU, force_cpu_mode, piece_batch, color_batch, stm_batch, budget, via,
              previous>>

\* newGame that keeps the timing records of the game before.
newGameKeepsTimings(hasFen, initialFen) ==
  \E r \in {initGame(hasFen, initialFen)} :
      /\ op' = "newGame"
      /\ IF r.threw
         THEN /\ out' = [threw |-> TRUE, error |-> r.error]
              /\ emitted' = <<>>
              /\ UNCHANGED <<game, status, moveStartTime, moveTimings, now>>
         ELSE /\ game' = r.game
              /\ status' = getStatus(game')
              /\ \E t \in Clock : now' = t /\ moveStartTime' = t
              /\ UNCHANGED moveTimings
              /\ emitted' = <<emitState(game', status')>>
              /\ out' = [threw |-> FALSE]
      /\ beforeMove' = <<>>
      /\ UNCHANGED <<loadReturnsBoolean, config, opponentEnabled, opponentProfile>>
      /\ backendIdle

\* newGame whose engine client starts a new game before it loads the FEN.
newGameResetsBeforeLoad(hasFen, initialFen) ==
  \E r \in {initGame(hasFen, initialFen)} :
      /\ op' = "newGame"
      /\ IF r.threw
         THEN /\ out' = [threw |-> TRUE, error |-> r.error]
              /\ emitted' = <<>>
              /\ game' = Chess_new
              /\ UNCHANGED <<status, moveStartTime, moveTimings, now>>
         ELSE /\ game' = r.game
              /\ status' = getStatus(game')
              /\ \E t \in Clock : now' = t /\ moveStartTime' = t
              /\ moveTimings' = <<>>
              /\ emitted' = <<emitState(game', status')>>
              /\ out' = [threw |-> FALSE]
      /\ beforeMove' = <<>>
      /\ UNCHANGED <<loadReturnsBoolean, config, opponentEnabled, opponentProfile>>
      /\ backendIdle

newGame(hasFen, initialFen) ==
  \E r \in {initGame(hasFen, initialFen)} :
      /\ op' = "newGame"
      /\ IF r.threw
         THEN /\ out' = [threw |-> TRUE, error |-> r.error]
              /\ emitted' = <<>>
              /\ UNCHANGED <<game, status, moveStartTime, moveTimings, now>>
         ELSE /\ game' = r.game
              /\ status' = getStatus(game')
              /\ \E t \in Clock : now' = t /\ moveStartTime' = t
              /\ moveTimings' = <<>>
              /\ emitted' = <<emitState(game', status')>>
              /\ out' = [threw |-> FALSE]
      /\ beforeMove' = <<>>
      /\ UNCHANGED <<loadReturnsBoolean, config, opponentEnabled, opponentProfile>>
      /\ backendIdle

updateConfig(patch) ==
  /\ op' = "updateConfig"
  /\ config' = mergeConfig(config, patch)
  /\ emitted' = <<emitConfig(config')>>
  /\ out' = [threw |-> FALSE]
  /\ beforeMove' = <<>>
  /\ UNCHANGED <<loadReturnsBoolean, game, status, opponentEnabled, opponentProfile,
                 moveStartTime, moveTimings, now>>
  /\ backendIdle

\* applyMove emitting gameStateChanged before it stores res.status.
applyMoveEmitsFirst(from, to, promotion, isComputer) ==
  LET r == makeMove(game, from, to, promotion)
  IN  /\ op' = "applyMove"
      /\ out' = r.res
      /\ game' = r.game
      /\ IF ~r.res.success
         THEN /\ emitted' = <<>>
              /\ beforeMove' = <<>>
              /\ UNCHANGED <<status, moveStartTime, moveTimings, now>>
         ELSE /\ Len(game.history) < MaxHistory
              /\ Len(moveTimings) < MaxTimings
              /\ \E t \in Clock :
                   /\ now' = t
                   /\ moveTimings' =
                        Append(moveTimings,
                               [moveIndex  |-> Len(getHistory(game')) - 1,
                                timeMs     |-> IF moveStartTime # 0
                                               THEN t - moveStartTime ELSE 0,
                                isComputer |-> isComputer])
                   /\ moveStartTime' = t
              /\ emitted' = <<emitState(game', status)>>
              /\ status' = r.res.status
              /\ beforeMove' = <<Getters>>
      /\ UNCHANGED <<loadReturnsBoolean, config, opponentEnabled, opponentProfile>>
      /\ backendIdle

applyMove(from, to, promotion, isComputer) ==
  \E r \in {makeMove(game, from, to, promotion)} :
      /\ op' = "applyMove"
      /\ out' = r.res
      /\ game' = r.game
      /\ IF ~r.res.success
         THEN /\ emitted' = <<>>
              /\ beforeMove' = <<>>
              /\ UNCHANGED <<status, moveStartTime, moveTimings, now>>
         ELSE /\ Len(game.history) < MaxHistory
              /\ Len(moveTimings) < MaxTimings
              /\ \E t \in Clock :
                   /\ now' = t
                   /\ moveTimings' =
                        Append(moveTimings,
                               [moveIndex  |-> Len(getHistory(game')) - 1,
                                timeMs     |-> IF moveStartTime # 0
                                               THEN t - moveStartTime ELSE 0,
                                isComputer |-> isComputer])
                   /\ moveStartTime' = t
              /\ status' = r.res.status
              /\ emitted' = <<emitState(game', status')>>
              /\ beforeMove' = <<Getters>>
      /\ UNCHANGED <<loadReturnsBoolean, config, opponentEnabled, opponentProfile>>
      /\ backendIdle

\* beforeMove after requestUndo: the getters of before the move twice over
\* when this call took back the move that applyMove had just made.
UndoneFrom(success) ==
  IF success /\ Len(beforeMove) = 1 THEN <<beforeMove[1], beforeMove[1]>> ELSE <<>>

\* requestUndo without the allow_takeback test.
requestUndoIgnoresConfig ==
  /\ op' = "requestUndo"
  /\ LET r == undoMove(game)
     IN  /\ out' = r.res
         /\ game' = r.game
         /\ IF ~r.res.success
            THEN emitted' = <<>> /\ UNCHANGED status
            ELSE /\ status' = r.res.status
                 /\ emitted' = <<emitState(game', status')>>
  /\ beforeMove' = UndoneFrom(out'.success)
  /\ UNCHANGED <<loadReturnsBoolean, config, opponentEnabled, opponentProfile,
                 moveStartTime, moveTimings, now>>
  /\ backendIdle

requestUndo ==
  /\ op' = "requestUndo"
  /\ IF ~config.allow_takeback
     THEN /\ out' = [success |-> FALSE, reason |-> "not_allowed"]
          /\ emitted' = <<>>
          /\ UNCHANGED <<game, status>>
     ELSE \E r \in {undoMove(game)} :
              /\ out' = r.res
              /\ game' = r.game
              /\ IF ~r.res.success
                 THEN emitted' = <<>> /\ UNCHANGED status
                 ELSE /\ status' = r.res.status
                      /\ emitted' = <<emitState(game', status')>>
  /\ beforeMove' = UndoneFrom(out'.success)
  /\ UNCHANGED <<loadReturnsBoolean, config, opponentEnabled, opponentProfile,
                 moveStartTime, moveTimings, now>>
  /\ backendIdle

\* setOpponent(enabled, profile); the controls pass null (here "") with
\* enabled = false.
setOpponent(enabled, profile) ==
  /\ op' = "setOpponent"
  /\ opponentEnabled' = enabled
  /\ opponentProfile' = (IF profile = "" THEN "random" ELSE profile)
  /\ out' = [threw |-> FALSE]
  /\ emitted' = <<>>
  /\ beforeMove' = <<>>
  /\ UNCHANGED <<loadReturnsBoolean, game, config, status, moveStartTime,
                 moveTimings, now>>
  /\ backendIdle

(***************************************************************************)
(* fenUtils.js and the views: boardView.js, statusView.js, controlsView.js *)
(***************************************************************************)
\* fenToBoard(fen): eight rows of eight entries, row 1 is rank 8, NoPiece for
\* null.
fenToBoard(fen) == [i \in 1..8 |-> ExpandRow(fen[1][i])]

NoSquare == -1
MAX_MESSAGES == 5
MaxClicks == 4
MaxEvents == 8
MaxToggles == 2

\* eventBus: const handlers = new Map(), and the bus before any call.
NoHandlers == [e \in {} |-> <<>>]
NoCall == [name |-> "none", event |-> "none", fn |-> "none", payload |-> 0,
           threw |-> FALSE]

\* boardView: a click that did not call applyMove.
NoMove == [called |-> FALSE]

\* gpuStatus = null, before the first status arrived.
NoStatus == [gpu_available |-> FALSE, gpu_enabled |-> FALSE, loaded |-> FALSE]

\* The state of the three views once bootstrap() has created and rendered
\* them.
InitViews ==
  /\ selectedSquare = NoSquare
  /\ highlightedTargets = {}
  /\ messages = <<>>
  /\ showMessages = TRUE
  /\ handler = "none"
  /\ clicks = 0
  /\ posted = <<>>
  /\ gpuStatus = NoStatus
  /\ gpuChk = FALSE
  \* createControlsView calls loadGPUStatus()
  /\ requests = <<[call |-> "status", enable |-> FALSE, stage |-> "sent",
                   answer |-> NoStatus, box |-> FALSE, attached |-> FALSE]>>
  /\ handlers = NoHandlers
  /\ invoked = <<>>
  /\ busOp = NoCall
  /\ passed = NoMove

\* No operation of gameState runs.
gameStateIdle ==
  /\ UNCHANGED <<loadReturnsBoolean, game, config, status, opponentEnabled,
                 opponentProfile, moveStartTime, moveTimings, now, emitted,
                 beforeMove, op, out>>
  /\ backendIdle

\* boardView
clearSelection ==
  /\ selectedSquare' = NoSquare
  /\ highlightedTargets' = {}

\* The board view rendering on gameStateChanged without clearing.
boardHearsAndKeeps(events) ==
  UNCHANGED <<selectedSquare, highlightedTargets>>

\* The board view's subscription: every gameStateChanged clears the
\* selection.
boardHears(events) ==
  IF \E k \in 1..Len(events) : events[k].event = "gameStateChanged"
  THEN clearSelection
  ELSE UNCHANGED <<selectedSquare, highlightedTargets>>

\* needsPromotion taking the digit of the rank for the row below the board's
\* first.
needsPromotionRankAsRow(from, to) ==
  LET board == fenToBoard(getFen(game))
      fromRow == 7 - (get_rank(from) + 1)
      fromCol == get_file(from)
      toRow == 7 - (get_rank(to) + 1)
  IN  /\ fromRow >= 0
      /\ \E piece \in {board[fromRow + 1][fromCol + 1]} :
            \/ piece = "P" /\ toRow = 0
            \/ piece = "p" /\ toRow = 7

\* boardView: needsPromotion(from, to)
needsPromotion(from, to) ==
  LET board == fenToBoard(getFen(game))
      fromRow == 7 - (get_rank(from) + 1) + 1
      fromCol == get_file(from)
      toRow == 7 - (get_rank(to) + 1) + 1
  IN  \E piece \in {board[fromRow + 1][fromCol + 1]} :
        \/ piece = "P" /\ toRow = 0
        \/ piece = "p" /\ toRow = 7

\* What the player answers to prompt("Promote to (q/r/b/n):", "q"): Cancelled
\* for null, or the text typed. NotAsked when there was no prompt.
Cancelled == "null"
NotAsked == "no prompt"
PromptAnswers == {Cancelled, "", "q", "R", "b", "N", "k"}

\* String.prototype.toLowerCase on the answers.
toLowerCase(str) == IF str \in DOMAIN Lower THEN Lower[str] ELSE str

\* promptPromotion(), given the answer of the prompt.
promptPromotion(typed) ==
  IF typed = Cancelled \/ typed = "" THEN "q"
  ELSE LET normalized == toLowerCase(typed)
       IN  IF normalized \in {"q", "r", "b", "n"} THEN normalized ELSE "q"

\* pushMessage keeping a message only while the messages are on show.
pushMessageWhenShown(msgs, type, text) ==
  IF ~showMessages THEN msgs
  ELSE IF Len(msgs) + 1 > MAX_MESSAGES
  THEN <<[type |-> type, text |-> text]>> \o SubSeq(msgs, 1, Len(msgs) - 1)
  ELSE <<[type |-> type, text |-> text]>> \o msgs

\* statusView: the time-of-day stamp of a message is left out.
pushMessage(msgs, type, text) ==
  \* the list after unshift
  IF Len(msgs) + 1 > MAX_MESSAGES
  THEN <<[type |-> type, text |-> text]>> \o SubSeq(msgs, 1, Len(msgs) - 1)
  ELSE <<[type |-> type, text |-> text]>> \o msgs

\* clearMessages that leaves the newest message.
clearMessagesKeepsNewest(msgs) == IF msgs = <<>> THEN <<>> ELSE <<msgs[1]>>

\* statusView: messages.length = 0
clearMessages(msgs) == <<>>

\* The status view's subscriptions, for the status events of one handler in
\* the order of their emission.
RECURSIVE statusHears(_, _)
statusHears(msgs, events) ==
  IF events = <<>> THEN msgs
  ELSE statusHears(
         CASE Head(events).event = "status:info" ->
                pushMessage(msgs, "info", Head(events).payload)
           [] Head(events).event = "status:error" ->
                pushMessage(msgs, "error", Head(events).payload)
           [] Head(events).event = "status:clear" -> clearMessages(msgs)
           [] OTHER -> msgs,
         Tail(events))

\* eventBus.emit of status events by a handler of the views.
emitStatus(events) ==
  /\ messages' = statusHears(messages, events)
  /\ LET cleared == {k \in 1..Len(events) : events[k].event = "status:clear"}
         from == IF cleared = {} THEN 0
                 ELSE CHOOSE k \in cleared : \A l \in cleared : l <= k
         pushed == SubSeq(events, from + 1, Len(events))
     IN  posted' =
           [k \in 1..Len(pushed) |->
              [type |-> IF pushed[Len(pushed) + 1 - k].event = "status:info"
                        THEN "info" ELSE "error",
               text |-> pushed[Len(pushed) + 1 - k].payload]]
             \o (IF cleared = {} THEN posted ELSE <<>>)

\* One more handler of the views has run, of the most that run.
Ran(name, most) ==
  /\ clicks < most
  /\ clicks' = clicks + 1
  /\ handler' = name
  /\ UNCHANGED busVars

\* eventBus: the events and the handler functions the callers pass; one of
\* the functions throws whenever it is called.
BusEvents == {"status:info", "configChanged"}
BusHandlers == {"render", "pushMessage", "faulty"}
Throwing == {"faulty"}
Payloads == {0, 1}

\* A Set in insertion order: Set.prototype.add and Set.prototype.delete.
SetAdd(set, x) ==
  IF \E k \in 1..Len(set) : set[k] = x THEN set ELSE Append(set, x)

SetDelete(set, x) == SelectSeq(set, LAMBDA y : y # x)

\* The rest of the page while the bus is called.
busAlone ==
  /\ gameStateIdle
  /\ UNCHANGED <<selectedSquare, highlightedTargets, messages, showMessages, handler,
                 clicks, posted, gpuStatus, gpuChk, requests, passed>>

\* eventBus.on
on(event, fn) ==
  /\ handlers' = [e \in DOMAIN handlers \cup {event} |->
                    IF e = event
                    THEN SetAdd(IF event \in DOMAIN handlers THEN handlers[event]
                                ELSE <<>>, fn)
                    ELSE handlers[e]]
  /\ busOp' = [name |-> "on", event |-> event, fn |-> fn, payload |-> 0,
               threw |-> FALSE]
  /\ UNCHANGED invoked
  /\ busAlone

\* eventBus.off that forgets every handler of the event.
offEvent(event, fn) ==
  /\ handlers' = IF event \notin DOMAIN handlers THEN handlers
                 ELSE [handlers EXCEPT ![event] = <<>>]
  /\ busOp' = [name |-> "off", event |-> event, fn |-> fn, payload |-> 0,
               threw |-> FALSE]
  /\ UNCHANGED invoked
  /\ busAlone

\* eventBus.off
off(event, fn) ==
  /\ handlers' = IF event \notin DOMAIN handlers THEN handlers
                 ELSE [handlers EXCEPT ![event] = SetDelete(@, fn)]
  /\ busOp' = [name |-> "off", event |-> event, fn |-> fn, payload |-> 0,
               threw |-> FALSE]
  /\ UNCHANGED invoked
  /\ busAlone

\* eventBus.emit: the loop without try and catch; the first exception ends
\* it and reaches the emitter.
RECURSIVE ForOfUncaught(_, _)
ForOfUncaught(fns, payload) ==
  IF fns = <<>> THEN [calls |-> <<>>, threw |-> FALSE]
  ELSE IF Head(fns) \in Throwing
  THEN [calls |-> <<[fn |-> Head(fns), payload |-> payload]>>, threw |-> TRUE]
  ELSE LET rest == ForOfUncaught(Tail(fns), payload)
       IN  [calls |-> <<[fn |-> Head(fns), payload |-> payload]>> \o rest.calls,
            threw |-> rest.threw]

\* eventBus.emit: for (const fn of handlers.get(event)) with the call in a
\* try whose catch logs the error. The result is the calls made and whether
\* an exception left the loop.
RECURSIVE ForOf(_, _)
ForOf(fns, payload) ==
  IF fns = <<>> THEN [calls |-> <<>>, threw |-> FALSE]
  ELSE LET call == [fn |-> Head(fns), payload |-> payload]
           caught == Head(fns) \in Throwing
           rest == ForOf(Tail(fns), payload)
       IN  \* thrown or not, the catch ends the try and the loop goes on
           [calls |-> <<call>> \o rest.calls, threw |-> rest.threw]

\* eventBus.emit
emit(event, payload) ==
  /\ \E r \in {IF event \notin DOMAIN handlers
               THEN [calls |-> <<>>, threw |-> FALSE]
               ELSE ForOf(handlers[event], payload)} :
       /\ invoked' = r.calls
       /\ busOp' = [name |-> "emit", event |-> event, fn |-> "none",
                    payload |-> payload, threw |-> r.threw]
  /\ UNCHANGED handlers
  /\ busAlone

\* boardView: a click on a square.
onSquareClick(square) ==
  /\ Ran("onSquareClick", MaxClicks)
  /\ UNCHANGED <<gpuStatus, gpuChk, requests>>
  /\ IF selectedSquare = NoSquare
     THEN \E moves \in {getLegalMoves(game, TRUE, square)} :
            /\ IF moves = {}
               THEN UNCHANGED <<selectedSquare, highlightedTargets>>
               ELSE /\ selectedSquare' = square
                    /\ highlightedTargets' =
                         IF config.highlight_valid_moves
                         THEN {m.to : m \in moves} ELSE {}
            /\ gameStateIdle
            /\ emitStatus(<<>>)
            /\ passed' = NoMove
     ELSE IF square = selectedSquare
     THEN /\ clearSelection
          /\ gameStateIdle
          /\ emitStatus(<<>>)
          /\ passed' = NoMove
     ELSE \E typed \in (IF needsPromotion(selectedSquare, square)
                        THEN PromptAnswers ELSE {NotAsked}),
             promotion \in {"-", "q", "r", "b", "n"} :
            \* let promotion = undefined, the answer of the prompt if needed
            /\ promotion = (IF typed = NotAsked THEN "-" ELSE promptPromotion(typed))
            /\ passed' = [called |-> TRUE, from |-> selectedSquare, to |-> square,
                          typed |-> typed, promotion |-> promotion]
            /\ applyMove(selectedSquare, square, promotion, FALSE)
            /\ IF ~out'.success
               THEN emitStatus(<<[event |-> "status:error",
                                  payload |-> <<"Illegal move", selectedSquare,
                                                square>>]>>)
               ELSE emitStatus(<<[event |-> "status:info",
                                  payload |-> <<"Move played", out'.move.from,
                                                out'.move.to>>]>>)
            /\ clearSelection
  /\ UNCHANGED showMessages

\* statusView: the "Show Messages" box is clicked.
msgToggleChk ==
  /\ Ran("msgToggleChk", MaxEvents)
  /\ UNCHANGED <<gpuStatus, gpuChk, requests, passed>>
  /\ showMessages' = ~showMessages
  /\ gameStateIdle
  /\ UNCHANGED <<selectedSquare, highlightedTargets, messages, posted>>

\* statusView: its subscription to a status event, whoever emits it.
onStatus(event, t) ==
  /\ Ran(event, MaxEvents)
  /\ UNCHANGED <<gpuStatus, gpuChk, requests, passed>>
  /\ emitStatus(<<[event |-> event, payload |-> t]>>)
  /\ gameStateIdle
  /\ UNCHANGED <<selectedSquare, highlightedTargets, showMessages>>

\* controlsView: the "Use GPU" box and the requests behind it.
\* render(): the box is drawn only when a status with gpu_available is held.
BoxDrawn == gpuStatus.loaded /\ gpuStatus.gpu_available

\* A request of backendClient on its way: the call, its argument, how far it
\* got, the answer of the backend, and for a toggle the box element whose
\* handler sent it: what that element shows and whether it is still the one
\* on the page.
Request(call, enable, attached) ==
  [call |-> call, enable |-> enable, stage |-> "sent", answer |-> NoStatus,
   box |-> enable, attached |-> attached]

Without(reqs, i) == SubSeq(reqs, 1, i - 1) \o SubSeq(reqs, i + 1, Len(reqs))

\* render() of the controls view: a new box element showing the status held.
controlsRender(held) ==
  /\ gpuChk' = (IF held.loaded /\ held.gpu_available THEN held.gpu_enabled ELSE gpuChk)
  /\ gpuStatus' = held

Detached(reqs) == [k \in 1..Len(reqs) |-> [reqs[k] EXCEPT !.attached = FALSE]]

\* gpuChk.onchange up to its first await: the player clicks the box and the
\* toggle request leaves.
gpuChk_onchange ==
  /\ BoxDrawn
  /\ Ran("gpuChk", MaxToggles)
  /\ gpuChk' = ~gpuChk
  /\ requests' = Append([k \in 1..Len(requests) |->
                           IF requests[k].attached
                           THEN [requests[k] EXCEPT !.box = ~gpuChk]
                           ELSE requests[k]],
                        Request("toggle", ~gpuChk, TRUE))
  /\ emitStatus(<<>>)
  /\ gameStateIdle
  /\ UNCHANGED <<gpuStatus, selectedSquare, highlightedTargets, showMessages, passed>>

\* The backend serves a request: POST /opponent/gpu-toggle sets the flag,
\* GET /opponent/gpu-status reads it.
served(i) ==
  /\ requests[i].stage = "sent"
  /\ IF requests[i].call = "toggle"
     THEN /\ force_cpu_mode' = ~requests[i].enable
          /\ requests' = [requests EXCEPT ![i].stage = "answered"]
     ELSE /\ UNCHANGED force_cpu_mode
          /\ requests' = [requests EXCEPT
               ![i].stage = "answered",
               ![i].answer = [gpu_available |-> GPU, gpu_enabled |-> GpuEnabled,
                              loaded |-> TRUE]]
  /\ UNCHANGED <<GPU, piece_batch, color_batch, stm_batch, budget, via, previous,
                 op, out, loadReturnsBoolean, game, config, status, opponentEnabled,
                 opponentProfile, moveStartTime, moveTimings, now, emitted,
                 beforeMove, selectedSquare, highlightedTargets, messages,
                 showMessages, handler, clicks, posted, gpuStatus, gpuChk, busVars, passed>>

\* fetch rejects or the answer is not ok, before or after the backend served
\* the request.
fetchFails(i) ==
  /\ requests[i].stage \in {"sent", "answered"}
  /\ requests' = [requests EXCEPT ![i].stage = "failed"]
  /\ emitStatus(<<>>)
  /\ gameStateIdle
  /\ UNCHANGED <<gpuStatus, gpuChk, selectedSquare, highlightedTargets,
                 showMessages, handler, clicks, busVars, passed>>

\* gpuChk.onchange after await toggleGPU(...): the message, then
\* loadGPUStatus() sends its request.
toggleReturns(i) ==
  /\ requests[i].call = "toggle"
  /\ requests[i].stage = "answered"
  /\ emitStatus(<<[event |-> "status:info",
                   payload |-> <<"GPU", IF requests[i].box THEN "enabled"
                                        ELSE "disabled">>]>>)
  /\ requests' = [requests EXCEPT ![i] = Request("status", FALSE, FALSE)]
  /\ gameStateIdle
  /\ UNCHANGED <<gpuStatus, gpuChk, selectedSquare, highlightedTargets,
                 showMessages, handler, clicks, busVars, passed>>

\* gpuChk.onchange: the catch after toggleGPU threw.
toggleThrows(i) ==
  /\ requests[i].call = "toggle"
  /\ requests[i].stage = "failed"
  /\ emitStatus(<<[event |-> "status:error", payload |-> <<"Failed to toggle GPU">>]>>)
  /\ requests' = Without(requests, i)
  /\ gameStateIdle
  /\ UNCHANGED <<gpuStatus, gpuChk, selectedSquare, highlightedTargets,
                 showMessages, handler, clicks, busVars, passed>>

\* loadGPUStatus() after await getGPUStatus(): the status is kept and the
\* controls are drawn again; when it threw, the error is only logged.
loadGPUStatus(i) ==
  /\ requests[i].call = "status"
  /\ requests[i].stage \in {"answered", "failed"}
  /\ IF requests[i].stage = "answered"
     THEN /\ controlsRender(requests[i].answer)
          /\ requests' = Detached(Without(requests, i))
     ELSE /\ requests' = Without(requests, i)
          /\ UNCHANGED <<gpuStatus, gpuChk>>
  /\ emitStatus(<<>>)
  /\ gameStateIdle
  /\ UNCHANGED <<selectedSquare, highlightedTargets, showMessages, handler, clicks, busVars, passed>>

\* controlsView: the labels of the opponent selector.
opponents ==
  [none |-> "Human (No Computer)", random |-> "Random Mover",
   aggressive |-> "High Aggressive", defensive |-> "High Defensive",
   moderate |-> "Moderate", defensive_passive |-> "Defensive Passive"]

\* controlsView: an opponent is chosen in the selector.
opponentSelect(value) ==
  /\ Ran("opponentSelect", MaxClicks)
  /\ UNCHANGED <<gpuStatus, gpuChk, requests, passed>>
  \* onchange: the option chosen is not the one shown
  /\ value # (IF opponentEnabled THEN opponentProfile ELSE "none")
  /\ IF value = "none"
     THEN /\ setOpponent(FALSE, "")
          /\ emitStatus(<<[event |-> "status:info",
                           payload |-> <<"Playing against human">>]>>)
     ELSE /\ setOpponent(TRUE, value)
          /\ emitStatus(<<[event |-> "status:info",
                           payload |-> <<"Playing against", opponents[value]>>]>>)
  /\ UNCHANGED <<selectedSquare, highlightedTargets, showMessages>>

\* The New Game button emitting the message before it clears the list.
newBtnClearsLast ==
  /\ Ran("newBtn", MaxClicks)
  /\ UNCHANGED <<gpuStatus, gpuChk, requests, passed>>
  /\ newGame(FALSE, <<>>)
  /\ boardHears(emitted')
  /\ emitStatus(<<[event |-> "status:info", payload |-> <<"New game started.">>],
                  [event |-> "status:clear", payload |-> <<>>]>>)
  /\ UNCHANGED showMessages

\* controlsView: the New Game button.
newBtn ==
  /\ Ran("newBtn", MaxClicks)
  /\ UNCHANGED <<gpuStatus, gpuChk, requests, passed>>
  /\ newGame(FALSE, <<>>)
  /\ boardHears(emitted')
  /\ emitStatus(<<[event |-> "status:clear", payload |-> <<>>],
                  [event |-> "status:info", payload |-> <<"New game started.">>]>>)
  /\ UNCHANGED showMessages

\* controlsView: the Undo button.
undoBtn ==
  /\ Ran("undoBtn", MaxClicks)
  /\ UNCHANGED <<gpuStatus, gpuChk, requests, passed>>
  /\ requestUndo
  /\ boardHears(emitted')
  /\ IF ~out'.success
     THEN emitStatus(<<[event |-> "status:error",
                        payload |-> <<"Undo failed", out'.reason>>]>>)
     ELSE emitStatus(<<[event |-> "status:info", payload |-> <<"Move undone.">>]>>)
  /\ UNCHANGED showMessages

\* controlsView: the "Highlight legal moves" box, which shows the option as
\* it is, is clicked.
hlChk ==
  /\ Ran("hlChk", MaxClicks)
  \* configChanged: the controls are drawn again
  /\ controlsRender(gpuStatus)
  /\ requests' = Detached(requests)
  /\ UNCHANGED passed
  /\ updateConfig([highlight_valid_moves |-> ~config.highlight_valid_moves])
  /\ boardHears(emitted')
  /\ emitStatus(<<>>)
  /\ UNCHANGED showMessages

\* controlsView: the "Allow takeback" box is clicked.
tbChk ==
  /\ Ran("tbChk", MaxClicks)
  \* configChanged: the controls are drawn again
  /\ controlsRender(gpuStatus)
  /\ requests' = Detached(requests)
  /\ UNCHANGED passed
  /\ updateConfig([allow_takeback |-> ~config.allow_takeback])
  /\ boardHears(emitted')
  /\ emitStatus(<<>>)
  /\ UNCHANGED showMessages

(***************************************************************************)
(* The frontend specification                                              *)
(***************************************************************************)
\* The moves the players try, as <<from, to, promotion, isComputer>>.
MoveInputs ==
  { <<13, 21, "-", FALSE>>,   \* f2-f3
    <<14, 30, "-", FALSE>>,   \* g2-g4
    <<52, 36, "-", TRUE>>,    \* e7-e5
    <<12, 36, "-", FALSE>>,   \* e2-e5, never a move
    <<48, 56, "q", FALSE>>,   \* a7-a8=Q
    <<48, 56, "-", FALSE>>,   \* a7-a8 with no promotion piece
    <<4, 6, "-", FALSE>>,     \* O-O
    <<36, 43, "-", FALSE>>,   \* e5xd6 en passant
    <<7, 63, "-", FALSE>>,    \* Rh1xh8
    <<60, 52, "-", TRUE>> }   \* Ke8-e7

ConfigPatches == {[allow_takeback |-> b] : b \in BOOLEAN}

\* createGameState(bus, getDefaultConfig()): the engine client holds a new
\* game and newGame() has run once.
InitFrontend ==
  /\ loadReturnsBoolean \in BOOLEAN
  /\ game = Chess_new
  /\ config = mergeConfig(getDefaultConfig, getDefaultConfig)
  /\ status = getStatus(game)
  /\ opponentEnabled = FALSE
  /\ opponentProfile = "random"
  /\ now = 1
  /\ moveStartTime = 1
  /\ moveTimings = <<>>
  /\ emitted = <<emitState(game, status)>>
  /\ beforeMove = <<>>

\* The backend variables while only the frontend runs.
BackendIdle ==
  /\ GPU = FALSE
  /\ force_cpu_mode = FALSE
  /\ piece_batch = <<>>
  /\ color_batch = <<>>
  /\ stm_batch = <<>>
  /\ via = "none"
  /\ previous = <<"none", <<>>>>

\* The frontend variables while only the backend runs.
FrontendIdle == InitFrontend /\ InitViews /\ loadReturnsBoolean

InitGame ==
  /\ InitFrontend
  /\ InitViews
  /\ BackendIdle
  /\ budget = 0
  /\ op = "newGame"
  /\ out = [threw |-> FALSE]

NextGame ==
  \/ newGame(FALSE, <<>>) /\ UNCHANGED viewVars
  \/ \E fen \in FenInputs : newGame(TRUE, fen) /\ UNCHANGED viewVars
  \/ \E patch \in ConfigPatches : updateConfig(patch) /\ UNCHANGED viewVars
  \/ \E m \in MoveInputs : applyMove(m[1], m[2], m[3], m[4]) /\ UNCHANGED viewVars
  \/ requestUndo /\ UNCHANGED viewVars
  \/ \E o \in {<<FALSE, "">>} : setOpponent(o[1], o[2]) /\ UNCHANGED viewVars

(***************************************************************************)
(* Inputs of the engine specifications                                     *)
(***************************************************************************)
MaxBatch == 2

EmptyPieces == [s \in Squares |-> PIECE_NONE]
EmptyColors == [s \in Squares |-> COLOR_EMPTY]

\* The board holding the placements <<square, piece, color>>.
PlacePieces(placements) ==
  [s \in Squares |-> IF \E p \in placements : p[1] = s
                     THEN (CHOOSE p \in placements : p[1] = s)[2] ELSE PIECE_NONE]
PlaceColors(placements) ==
  [s \in Squares |-> IF \E p \in placements : p[1] = s
                     THEN (CHOOSE p \in placements : p[1] = s)[3] ELSE COLOR_EMPTY]

BackRank == <<PIECE_ROOK, PIECE_KNIGHT, PIECE_BISHOP, PIECE_QUEEN,
              PIECE_KING, PIECE_BISHOP, PIECE_KNIGHT, PIECE_ROOK>>
StartPlacements ==
  {<<f, BackRank[f + 1], COLOR_WHITE>> : f \in 0..7}
    \cup {<<8 + f, PIECE_PAWN, COLOR_WHITE>> : f \in 0..7}
    \cup {<<48 + f, PIECE_PAWN, COLOR_BLACK>> : f \in 0..7}
    \cup {<<56 + f, BackRank[f + 1], COLOR_BLACK>> : f \in 0..7}

\* Every board with exactly one piece.
OnePiecePlacements ==
  {{<<s, p, c>>} : s \in Squares, p \in PIECE_PAWN..PIECE_KING,
                   c \in {COLOR_WHITE, COLOR_BLACK}}

\* Every subset of a crowded middle-game fragment: blockers of both colours
\* on rays, pawns before promotion, pawns on their start rank.
ClutterPlacements ==
  {<<4, PIECE_KING, COLOR_WHITE>>, <<3, PIECE_QUEEN, COLOR_WHITE>>,
   <<12, PIECE_PAWN, COLOR_WHITE>>, <<21, PIECE_KNIGHT, COLOR_WHITE>>,
   <<48, PIECE_PAWN, COLOR_WHITE>>, <<57, PIECE_KNIGHT, COLOR_BLACK>>,
   <<60, PIECE_KING, COLOR_BLACK>>, <<51, PIECE_PAWN, COLOR_BLACK>>,
   <<39, PIECE_ROOK, COLOR_BLACK>>, <<9, PIECE_PAWN, COLOR_BLACK>>}

SingleInputs ==
  {StartPlacements} \cup OnePiecePlacements \cup SUBSET ClutterPlacements

\* Boards of a batch: empty, start, a lone king, a knight, a promotion race.
BatchInputs ==
  {{}, StartPlacements,
   {<<4, PIECE_KING, COLOR_WHITE>>},
   {<<28, PIECE_KNIGHT, COLOR_WHITE>>, <<60, PIECE_KING, COLOR_BLACK>>},
   {<<48, PIECE_PAWN, COLOR_WHITE>>, <<57, PIECE_KNIGHT, COLOR_BLACK>>,
    <<9, PIECE_PAWN, COLOR_BLACK>>}}

Sides == {COLOR_WHITE, COLOR_BLACK}

InitCall ==
  /\ GPU \in BOOLEAN
  /\ force_cpu_mode = FALSE
  /\ op = "none"
  /\ via = "none"
  /\ out = <<>>
  /\ previous = <<"none", <<>>>>

InitEngineInputs ==
  \/ \E b \in SingleInputs, s \in Sides :
       /\ piece_batch = <<PlacePieces(b)>>
       /\ color_batch = <<PlaceColors(b)>>
       /\ stm_batch = <<s>>
  \/ \E n \in 2..MaxBatch :
       \E bs \in [1..n -> BatchInputs], ss \in [1..n -> Sides] :
         /\ piece_batch = [i \in 1..n |-> PlacePieces(bs[i])]
         /\ color_batch = [i \in 1..n |-> PlaceColors(bs[i])]
         /\ stm_batch = ss

\* Each behaviour of SpecEngine is one call of one operation on the drawn
\* input.
InitEngine == InitCall /\ InitEngineInputs /\ budget = 1 /\ FrontendIdle

NextEngine ==
  \/ attack_maps_single
  \/ evaluate_position_single
  \/ generate_moves_single
  \/ attack_maps_batch
  \/ evaluate_position_batch
  \/ generate_moves_batch_call

\* Behaviours of SpecBackend are sequences of up to MaxCalls requests on one
\* board, GPU toggles among them.
MaxCalls == 3

InitBackend ==
  /\ InitCall
  /\ FrontendIdle
  /\ budget = MaxCalls
  /\ \E b \in BatchInputs, s \in Sides :
       /\ piece_batch = <<PlacePieces(b)>>
       /\ color_batch = <<PlaceColors(b)>>
       /\ stm_batch = <<s>>

NextBackend ==
  \/ attack_maps_single
  \/ evaluate_position_single
  \/ generate_moves_single
  \/ attack_maps_batch
  \/ evaluate_position_batch
  \/ generate_moves_batch_call
  \/ \E enable \in BOOLEAN : gpu_toggle(enable)
  \/ gpu_status
  \/ opponent_evaluate

vars == <<engineVars, gameVars>>

SpecGame == InitGame /\ [][NextGame]_vars

SpecEngine == InitEngine /\ [][NextEngine]_vars
SpecBackend == InitBackend /\ [][NextBackend]_vars

(***************************************************************************)
(* Properties of the engine                                                *)
(***************************************************************************)
EngineCalls == {"attack_maps", "evaluate", "generate_moves",
                "attack_maps_batch", "evaluate_batch", "generate_moves_batch"}

\* C1: every record generate_moves returns has from and to in 0..63, a piece
\* of the side to move on from, and no piece of the side to move on to.
C1_NeverLandsOnOwnPiece ==
  op = "generate_moves" =>
    \A k \in 1..Len(out) :
      /\ out[k][1] \in Squares
      /\ out[k][2] \in Squares
      /\ color_batch[1][out[k][1]] = stm_batch[1]
      /\ color_batch[1][out[k][2]] # stm_batch[1]

\* C1 witness: moves were generated on a board where a knight, king or
\* sliding piece of the side to move attacks a square held by its own side.
C1_Witness ==
  /\ op = "generate_moves"
  /\ Len(out) > 0
  /\ \E s, t \in Squares :
       /\ color_batch[1][s] = stm_batch[1]
       /\ color_batch[1][t] = stm_batch[1]
       /\ piece_batch[1][s] # PIECE_PAWN
       /\ t \in SeqRange(PieceAttacks(s, piece_batch[1], color_batch[1]))

\* The records of board i (0-based) in a batch move output, index removed.
BoardMoves(moves, i) ==
  LET mine == SelectSeq(moves, LAMBDA m : m[1] = i)
  IN  [k \in 1..Len(mine) |-> Tail(mine[k])]

\* C2: the batch result for board i equals the single-position result for
\* board i: attack-map row i, evaluation element i, and the batch move
\* records carrying index i, in order and minus the index.
C2_BatchEqualsSingle ==
  LET N == Len(piece_batch) IN
  /\ op = "attack_maps_batch" =>
       \A i \in 1..N : <<out[1][i], out[2][i]>>
                         = compute_attack_maps(piece_batch[i], color_batch[i])
  /\ op = "evaluate_batch" =>
       \A i \in 1..N : <<out[1][i], out[2][i], out[3][i], out[4][i]>>
                         = evaluate(piece_batch[i], color_batch[i])
  /\ op = "generate_moves_batch" =>
       /\ out.ok
       /\ \A i \in 1..N :
            BoardMoves(out.moves, i - 1)
              = generate_pseudo_legal_moves(piece_batch[i], color_batch[i], stm_batch[i])

\* C3: the data-parallel strategy's batch attack maps, four evaluation
\* integers per board and per-board move lists equal those of the scalar
\* strategy.
C3_GpuEqualsCpu ==
  /\ op = "attack_maps_batch" =>
       out = compute_attack_maps_batch(FALSE, piece_batch, color_batch)
  /\ op = "evaluate_batch" =>
       \A c \in 1..4 : out[c] = evaluate_batch(FALSE, piece_batch, color_batch)[c]
  /\ op = "generate_moves_batch" =>
       out.moves = generate_moves_batch(FALSE, piece_batch, color_batch, stm_batch).moves

LegalInput(m) ==
  /\ IsLegal(game, m[1], m[2])
  /\ "p" \in PseudoFlags(game, m[1], m[2]) => m[3] \in {"q", "r", "b", "n"}

Refused(reason) == [success |-> FALSE, reason |-> reason]

\* C5: in a position that is not game over, applyMove with a legal move
\* returns success, flips the side to move, lengthens the history by exactly
\* one entry, and returns and caches the engine's status after the move.
C5_LegalMoveApplied ==
  [][\A m \in MoveInputs :
       (/\ op' = "applyMove"
        /\ ~Chess_isGameOver(game)
        /\ LegalInput(m)
        /\ applyMove(m[1], m[2], m[3], m[4]))
       => /\ out'.success
          /\ game'.turn = swapColor(game.turn)
          /\ getStatus(game').turn # getStatus(game).turn
          /\ Len(getHistory(game')) = Len(getHistory(game)) + 1
          /\ out'.status = getStatus(game')
          /\ status' = getStatus(game')]_vars

\* C5 witness: Black's e7-e5 was applied as the second move of a game and
\* White is to move.
C5_Witness ==
  /\ op = "applyMove"
  /\ out.success
  /\ out.move.color = "b"
  /\ out.move.from = 52
  /\ Len(getHistory(game)) = 2
  /\ status.turn = "w"

\* What a refused operation leaves alone.
Untouched ==
  /\ getFen(game') = getFen(game)
  /\ getHistory(game') = getHistory(game)
  /\ status' = status
  /\ moveTimings' = moveTimings
  /\ emitted' = <<>>

\* C6 as stated: applyMove with a (from, to) that is not a legal move in the
\* current position returns {success: false, reason: "illegal"}, leaves FEN,
\* history, cached status and moveTimings unchanged and emits nothing.
C6_IllegalMoveRefusedAsIllegal ==
  [][\A m \in MoveInputs :
       (/\ op' = "applyMove"
        /\ ~LegalInput(m)
        /\ applyMove(m[1], m[2], m[3], m[4]))
       => (out' = Refused("illegal") /\ Untouched)]_vars

\* C6 amended: applyMove with a (from, to) that is not a legal move returns
\* success false with reason "game_over" when the game is over and "illegal"
\* otherwise, and in both cases leaves FEN, history, cached status and
\* moveTimings unchanged and emits nothing.
C6_IllegalMoveRefused ==
  [][\A m \in MoveInputs :
       (/\ op' = "applyMove"
        /\ ~LegalInput(m)
        /\ applyMove(m[1], m[2], m[3], m[4]))
       => /\ out' = Refused(IF Chess_isGameOver(game) THEN "game_over"
                            ELSE "illegal")
          /\ Untouched]_vars

\* C6 witness: a move was refused as "game_over" in a checkmate position.
C6_Witness ==
  /\ op = "applyMove"
  /\ out = Refused("game_over")
  /\ status.isCheckmate
  /\ emitted = <<>>

\* C7: while allow_takeback is false, requestUndo returns
\* {success: false, reason: "not_allowed"} whatever the history length and
\* does not reach the engine: game, history and status stay and nothing is
\* emitted.
C7_TakebackNotAllowed ==
  [][(op' = "requestUndo" /\ ~config.allow_takeback)
     => /\ out' = Refused("not_allowed")
        /\ game' = game
        /\ getFen(game') = getFen(game)
        /\ getHistory(game') = getHistory(game)
        /\ status' = status
        /\ emitted' = <<>>]_vars

\* C7 witness: an undo was refused as "not_allowed" with two moves in the
\* history.
C7_Witness ==
  /\ op = "requestUndo"
  /\ out = Refused("not_allowed")
  /\ ~config.allow_takeback
  /\ Len(getHistory(game)) = 2

\* C8: requestUndo directly after a successful applyMove, takeback allowed,
\* succeeds and restores FEN, side to move, history and cached status to
\* their values before the move.
C8_UndoRestores ==
  [][(op' = "requestUndo" /\ Len(beforeMove) = 1 /\ config.allow_takeback)
     => /\ out'.success
        /\ getFen(game') = beforeMove[1].fen
        /\ game'.turn = beforeMove[1].status.turn
        /\ getHistory(game') = beforeMove[1].history
        /\ status' = beforeMove[1].status]_vars

\* C8 witness: the move taken back directly after it was made is a castling
\* move, an en passant capture or a promotion.
C8_Witness ==
  /\ op = "requestUndo"
  /\ Len(beforeMove) = 2
  /\ out.success
  /\ out.move.flags \cap {"k", "e", "p"} # {}

\* C9: requestUndo with takeback allowed on an empty history returns
\* {success: false, reason: "no_move"}, changes neither game, status nor
\* timings and emits nothing.
C9_NothingToUndo ==
  [][(op' = "requestUndo" /\ config.allow_takeback /\ getHistory(game) = <<>>)
     => /\ out' = Refused("no_move")
        /\ game' = game
        /\ getFen(game') = getFen(game)
        /\ status' = status
        /\ moveTimings' = moveTimings
        /\ moveStartTime' = moveStartTime
        /\ emitted' = <<>>]_vars

\* C9 witness: an undo was refused as "no_move" in a position loaded from a
\* FEN, and one refused after the only move had been taken back.
C9_Witness ==
  /\ op = "requestUndo"
  /\ out = Refused("no_move")
  /\ \/ getFen(game) # DEFAULT_POSITION
     \/ Len(moveTimings) = 1

\* The last operation was newGame, applyMove or requestUndo and succeeded.
Succeeded ==
  IF op = "newGame" THEN ~out.threw ELSE out.success

\* C10: newGame, a successful applyMove and a successful requestUndo emit
\* exactly one gameStateChanged, whose fen, status and history are what the
\* getters return once the operation is done, the status being the engine's
\* status of the new position; a failed one emits nothing; and no
\* operation changes the position without emitting.
C10_OneEventPerPositionChange ==
  /\ [](op \in {"newGame", "applyMove", "requestUndo"}
        => IF Succeeded
           THEN /\ emitted = <<[event |-> "gameStateChanged", payload |-> Getters]>>
                /\ emitted[1].payload.status = getStatus(game)
           ELSE emitted = <<>>)
  /\ [][getFen(game') # getFen(game)
        => (Len(emitted') = 1 /\ emitted'[1].event = "gameStateChanged")]_vars

\* C10 witness: a move that gives check was applied and its one event
\* reports the check.
C10_Witness ==
  /\ op = "applyMove"
  /\ out.success
  /\ Len(emitted) = 1
  /\ emitted[1].payload.status.isCheck

(***************************************************************************)
(* Further properties of the engine (SpecEngine, SpecBackend)              *)
(***************************************************************************)
\* The moves of board i of the batch, by the single-position generator.
SingleMoves(i) ==
  generate_pseudo_legal_moves(piece_batch[i], color_batch[i], stm_batch[i])

\* C11: generate_moves_batch never fails because of boards without moves: a
\* board without moves contributes no record, and when no board of the
\* batch has a move the result is the empty move sequence.
C11_BatchToleratesNoMoves ==
  op = "generate_moves_batch"
    => /\ out.ok
       /\ \A i \in 1..Len(piece_batch) :
            SingleMoves(i) = <<>> => BoardMoves(out.moves, i - 1) = <<>>
       /\ (\A i \in 1..Len(piece_batch) : SingleMoves(i) = <<>>) => out.moves = <<>>

SingleCalls == {"attack_maps", "evaluate", "generate_moves"}

StartPieces == PlacePieces(StartPlacements)
StartColors == PlaceColors(StartPlacements)

\* The records of a move list whose from square holds the given piece.
MovesOf(moves, piece_arr, piece) ==
  SelectSeq(moves, LAMBDA m : piece_arr[m[1]] = piece)

\* C13: for the standard starting position with White to move,
\* generate_moves returns exactly 20 records: 16 pawn moves and 4 knight
\* moves.
C13_StartHasTwentyMoves ==
  (/\ op = "generate_moves"
   /\ piece_batch[1] = StartPieces
   /\ color_batch[1] = StartColors
   /\ stm_batch[1] = COLOR_WHITE)
  => /\ Len(out) = 20
     /\ Len(MovesOf(out, StartPieces, PIECE_PAWN)) = 16
     /\ Len(MovesOf(out, StartPieces, PIECE_KNIGHT)) = 4

\* C13 witness: generate_moves has returned for the starting position with
\* White to move.
C13_Witness ==
  /\ op = "generate_moves"
  /\ piece_batch[1] = StartPieces
  /\ color_batch[1] = StartColors
  /\ stm_batch[1] = COLOR_WHITE
  /\ Len(out) > 0

\* Record m of a move list for side stm on piece_arr lands a pawn on the
\* farthest rank of its colour.
PawnReachesLastRank(m, piece_arr, stm) ==
  piece_arr[m[1]] = PIECE_PAWN /\ get_rank(m[2]) = LastRank(stm)

\* C14: whenever a pawn push or capture reaches the farthest rank,
\* generate_moves has exactly four records for that from / to pair, with
\* promotion 2, 3, 4 and 5 and the same flags; every other record has
\* promotion 0.
C14_PromotionInFour ==
  op = "generate_moves"
    => \A k \in 1..Len(out) :
         IF PawnReachesLastRank(out[k], piece_batch[1], stm_batch[1])
         THEN LET same == {j \in 1..Len(out) :
                             out[j][1] = out[k][1] /\ out[j][2] = out[k][2]}
              IN  /\ Cardinality(same) = 4
                  /\ {out[j][3] : j \in same} =
                       {PIECE_KNIGHT, PIECE_BISHOP, PIECE_ROOK, PIECE_QUEEN}
                  /\ \A j \in same : out[j][4] = out[k][4]
         ELSE out[k][3] = 0

\* C14 witness: the move list holds a promotion by push and a promotion by
\* capture.
C14_Witness ==
  /\ op = "generate_moves"
  /\ \E k \in 1..Len(out) :
       /\ PawnReachesLastRank(out[k], piece_batch[1], stm_batch[1])
       /\ out[k][4] = FLAG_NORMAL
  /\ \E k \in 1..Len(out) :
       /\ PawnReachesLastRank(out[k], piece_batch[1], stm_batch[1])
       /\ out[k][4] = FLAG_CAPTURE

\* C15: evaluate's offensive score of a side is the side's material plus a
\* constant weight times the number of records generate_moves returns with
\* that side to move (here: for some weight, which may even differ from
\* position to position).
C15_OffenseIsMaterialPlusMoveCount ==
  op = "evaluate"
    => \E w \in 0..(out[1] + out[3]) :
         /\ out[1] = Material(COLOR_WHITE, piece_batch[1], color_batch[1])
                     + w * Len(generate_pseudo_legal_moves(piece_batch[1],
                                 color_batch[1], COLOR_WHITE))
         /\ out[3] = Material(COLOR_BLACK, piece_batch[1], color_batch[1])
                     + w * Len(generate_pseudo_legal_moves(piece_batch[1],
                                 color_batch[1], COLOR_BLACK))

\* C16: for the standard starting position evaluate returns equal scores
\* for both sides: off_A = off_B and def_A = def_B.
C16_StartIsBalanced ==
  (/\ op = "evaluate"
   /\ piece_batch[1] = StartPieces
   /\ color_batch[1] = StartColors)
  => (out[1] = out[3] /\ out[2] = out[4])

\* C16 witness: evaluate has returned positive scores for the starting
\* position.
C16_Witness ==
  /\ op = "evaluate"
  /\ piece_batch[1] = StartPieces
  /\ color_batch[1] = StartColors
  /\ out[1] > 0
  /\ out[2] > 0

HasBit(x, bit) == (x \div bit) % 2 = 1

\* C18: no record returned by generate_moves or generate_moves_batch has the
\* en passant bit (2) or the castle bit (4) set in its flags.
C18_NoEnPassantNoCastle ==
  /\ op = "generate_moves"
       => \A k \in 1..Len(out) :
            ~HasBit(out[k][4], FLAG_EN_PASSANT) /\ ~HasBit(out[k][4], FLAG_CASTLE)
  /\ op = "generate_moves_batch"
       => \A k \in 1..Len(out.moves) :
            /\ ~HasBit(out.moves[k][5], FLAG_EN_PASSANT)
            /\ ~HasBit(out.moves[k][5], FLAG_CASTLE)

\* C18 witness: a batch move list with a capture and a double pawn push, and
\* kings on their home squares.
C18_Witness ==
  /\ op = "generate_moves_batch"
  /\ \E k \in 1..Len(out.moves) : out.moves[k][5] = FLAG_CAPTURE
  /\ \E k \in 1..Len(out.moves) : out.moves[k][5] = FLAG_DOUBLE_PUSH
  /\ \E i \in 1..Len(piece_batch) :
       piece_batch[i][4] = PIECE_KING /\ piece_batch[i][60] = PIECE_KING

\* Board i of the call holds a single piece, of the given kind, on sq.
LonePiece(i, sq, piece) ==
  /\ i \in 1..Len(piece_batch)
  /\ piece_batch[i][sq] = piece
  /\ \A q \in Squares \ {sq} : piece_batch[i][q] = PIECE_NONE

\* The squares the returned attack map of the side marks for board i.
Marked(i, side) ==
  LET map == IF op = "attack_maps" THEN out[side + 1] ELSE out[side + 1][i]
  IN  {t \in Squares : map[t]}

\* The squares an L-step away from sq.
LSteps(sq) ==
  {t \in Squares :
     {Abs(get_rank(t) - get_rank(sq)), Abs(get_file(t) - get_file(sq))} = {1, 2}}

\* C19: on an otherwise empty board a knight on s attacks exactly the
\* squares an L-step away from s: 2, 3, 4, 6 or 8 of them, 8 on e4; the
\* other side attacks nothing.
C19_LoneKnightAttacks ==
  op \in {"attack_maps", "attack_maps_batch"}
    => \A i \in 1..Len(piece_batch) : \A s \in Squares :
         LonePiece(i, s, PIECE_KNIGHT)
           => /\ Marked(i, color_batch[i][s]) = LSteps(s)
              /\ Marked(i, 1 - color_batch[i][s]) = {}
              /\ Cardinality(Marked(i, color_batch[i][s])) \in {2, 3, 4, 6, 8}
              /\ s = 28 => Cardinality(Marked(i, color_batch[i][s])) = 8

\* C19 witness: the attack map of a lone knight in the corner h1 was
\* returned by the batch operation of the data-parallel strategy.
C19_Witness ==
  /\ op = "attack_maps_batch"
  /\ GPU
  /\ LonePiece(1, 7, PIECE_KNIGHT)
  /\ Cardinality(Marked(1, color_batch[1][7])) = 2

\* C20: a lone rook on a1 attacks exactly 14 squares, the seven other
\* squares of the a-file and the seven other squares of rank 1, and not a1.
C20_LoneRookOnA1 ==
  op \in {"attack_maps", "attack_maps_batch"}
    => \A i \in 1..Len(piece_batch) :
         LonePiece(i, 0, PIECE_ROOK)
           => /\ Marked(i, color_batch[i][0]) =
                   {t \in Squares \ {0} : get_file(t) = 0 \/ get_rank(t) = 0}
              /\ Cardinality(Marked(i, color_batch[i][0])) = 14
              /\ 0 \notin Marked(i, color_batch[i][0])

\* C20 witness: attack_maps has returned for a lone white rook on a1, h1
\* and a8 marked.
C20_Witness ==
  /\ op = "attack_maps"
  /\ LonePiece(1, 0, PIECE_ROOK)
  /\ color_batch[1][0] = COLOR_WHITE
  /\ {7, 56} \subseteq Marked(1, COLOR_WHITE)

(***************************************************************************)
(* Attack maps of the empty board and of any board (SpecEngine)            *)
(***************************************************************************)
NoSquareMarked == [t \in Squares |-> FALSE]

\* C21: for the empty board (every square piece 0, color -1) attack_maps
\* returns all-false arrays for both sides.
C21_EmptyBoardNoAttacks ==
  (/\ op = "attack_maps"
   /\ piece_batch[1] = EmptyPieces
   /\ color_batch[1] = EmptyColors)
  => out = <<NoSquareMarked, NoSquareMarked>>

\* C21 witness: attack_maps has returned two arrays of 64 entries for the
\* empty board.
C21_Witness ==
  /\ op = "attack_maps"
  /\ piece_batch[1] = EmptyPieces
  /\ color_batch[1] = EmptyColors
  /\ Len(out) = 2
  /\ DOMAIN out[1] = Squares
  /\ DOMAIN out[2] = Squares

\* The squares strictly between s and t on their common rank, file or
\* diagonal.
Between(s, t) ==
  {q \in Squares \ {s, t} :
     /\ \/ get_rank(s) = get_rank(t) /\ get_rank(q) = get_rank(s)
        \/ get_file(s) = get_file(t) /\ get_file(q) = get_file(s)
        \/ /\ Abs(get_rank(s) - get_rank(t)) = Abs(get_file(s) - get_file(t))
           /\ Abs(get_rank(s) - get_rank(q)) = Abs(get_file(s) - get_file(q))
           /\ (get_rank(q) - get_rank(s)) * (get_file(t) - get_file(s))
                = (get_file(q) - get_file(s)) * (get_rank(t) - get_rank(s))
     /\ Abs(get_rank(q) - get_rank(s)) + Abs(get_rank(q) - get_rank(t))
          = Abs(get_rank(s) - get_rank(t))
     /\ Abs(get_file(q) - get_file(s)) + Abs(get_file(q) - get_file(t))
          = Abs(get_file(s) - get_file(t))}

\* The piece on s reaches t under its attack rule, stated by the geometry
\* of the board: a pawn the two squares diagonally ahead, a knight an L-step,
\* a king the adjacent squares, a sliding piece along its lines as far as
\* the first occupied square, that square included.
Reaches(s, t, piece_arr, color_arr) ==
  LET dr == get_rank(t) - get_rank(s)
      df == get_file(t) - get_file(s)
      clear == \A q \in Between(s, t) : piece_arr[q] = PIECE_NONE
      diagonal == Abs(dr) = Abs(df) /\ dr # 0 /\ clear
      straight == (dr = 0) # (df = 0) /\ clear
  IN  CASE piece_arr[s] = PIECE_PAWN ->
             Abs(df) = 1 /\ dr = (IF color_arr[s] = COLOR_WHITE THEN 1 ELSE -1)
        [] piece_arr[s] = PIECE_KNIGHT -> {Abs(dr), Abs(df)} = {1, 2}
        [] piece_arr[s] = PIECE_BISHOP -> diagonal
        [] piece_arr[s] = PIECE_ROOK -> straight
        [] piece_arr[s] = PIECE_QUEEN -> diagonal \/ straight
        [] piece_arr[s] = PIECE_KING -> Abs(dr) <= 1 /\ Abs(df) <= 1 /\ s # t
        [] OTHER -> FALSE

\* C30: attack_maps marks square t as attacked by side S iff some piece of S
\* reaches t under its attack rule, whether or not t holds a piece of S; in
\* the standard starting position each side attacks exactly 22 squares.
C30_MarkedIffReached ==
  op = "attack_maps"
    => /\ \A side \in Sides : \A t \in Squares :
            out[side + 1][t]
              <=> \E s \in Squares :
                    /\ color_batch[1][s] = side
                    /\ Reaches(s, t, piece_batch[1], color_batch[1])
       /\ (piece_batch[1] = StartPieces /\ color_batch[1] = StartColors)
            => \A side \in Sides : Cardinality(Marked(1, side)) = 22

\* C30 witness: attack_maps has returned for the starting position, and
\* White attacks d2, where its own pawn stands, but not d4.
C30_Witness ==
  /\ op = "attack_maps"
  /\ piece_batch[1] = StartPieces
  /\ color_batch[1] = StartColors
  /\ out[1][11]
  /\ color_batch[1][11] = COLOR_WHITE
  /\ ~out[1][27]

(***************************************************************************)
(* Further claims about engineClient and gameState (SpecGame)              *)
(***************************************************************************)
\* The standard starting position with White to move, no move played and no
\* timing recorded.
FreshGame ==
  /\ getFen(game) = DEFAULT_POSITION
  /\ status.turn = "w"
  /\ getHistory(game) = <<>>
  /\ moveTimings = <<>>

\* C22: after createEngineClient / createGameState, and after newGame()
\* without a FEN from any reachable state, the position is the standard
\* starting position with White to move, the history is empty and
\* moveTimings is empty.
C22_NewGameIsFresh ==
  /\ FreshGame
  /\ [][newGame(FALSE, <<>>) => FreshGame']_vars

\* C22 witness: newGame() has run in a session whose allow_takeback option
\* had been switched off since creation, and the game is fresh.
C22_Witness ==
  /\ op = "newGame"
  /\ ~out.threw
  /\ ~config.allow_takeback
  /\ FreshGame
  /\ Len(emitted) = 1

\* C23: newGame(fen) with an invalid FEN throws an Error and leaves the
\* current game untouched: position, history, cached status and moveTimings
\* keep their values and no gameStateChanged is emitted.
C23_InvalidFenThrows ==
  [][\A fen \in FenInputs :
       (~validateFen(fen) /\ newGame(TRUE, fen))
       => (out'.threw /\ Untouched)]_vars

\* C23 witness: newGame(fen) has thrown, where load() answers false for a
\* FEN that does not load, in a game with a move played and timed.
C23_Witness ==
  /\ op = "newGame"
  /\ out.threw
  /\ loadReturnsBoolean
  /\ Len(getHistory(game)) > 0
  /\ Len(moveTimings) > 0

\* C24: once the game is over (checkmate, stalemate or draw) every applyMove
\* returns {success: false, reason: "game_over"} and changes neither
\* position, history, cached status nor timings.
C24_GameOverRefusesMoves ==
  [][(op' = "applyMove" /\ Chess_isGameOver(game))
       => (out' = Refused("game_over") /\ Untouched)]_vars

\* C24 witness: a move was refused with reason "game_over" in a checkmate
\* position.
C24_Witness ==
  /\ op = "applyMove"
  /\ out = Refused("game_over")
  /\ status.isCheckmate
  /\ Chess_isGameOver(game)

\* The timing the move list shows next to move idx: the first record with
\* that moveIndex; <<>> when there is none.
DisplayedTiming(idx) ==
  LET found == SelectSeq(moveTimings, LAMBDA t : t.moveIndex = idx)
  IN  IF found = <<>> THEN <<>> ELSE <<found[1]>>

\* The records made when a move was applied at index idx, oldest first; the
\* last of them belongs to the move now at that index.
RecordedAt(idx) == SelectSeq(moveTimings, LAMBDA t : t.moveIndex = idx)

\* C26: after any sequence of applyMove, requestUndo and newGame every move
\* in the history has exactly one timing record, and the timing displayed
\* next to move i is the one recorded when the move now at index i was
\* applied.
C26_OneTimingPerMove ==
  \A i \in 0..(Len(getHistory(game)) - 1) :
    /\ Len(RecordedAt(i)) = 1
    /\ DisplayedTiming(i) = <<RecordedAt(i)[Len(RecordedAt(i))]>>

(***************************************************************************)
(* The page: one game state, its board and its controls (SpecUI)           *)
(***************************************************************************)
\* The player clicks f2, f3 and e7 and chooses between no opponent and the
\* aggressive one.
NextUI ==
  \/ \E square \in {13, 21, 52} : onSquareClick(square)
  \/ \E value \in {"none", "aggressive"} : opponentSelect(value)
  \/ newBtn
  \/ undoBtn
  \/ hlChk
  \/ tbChk

\* bootstrap(): a game state with the three views on one event bus, over a
\* chess.js whose load() answers.
InitUI == InitGame /\ loadReturnsBoolean

SpecUI == InitUI /\ [][NextUI]_vars

\* The page schedules nothing by itself: every step is a handler the player
\* sets off. The player goes on clicking as long as anything can be clicked;
\* stated for the two boxes, which can be clicked exactly as long as any
\* handler can run, this forces a step of NextUI whenever one is possible.
SpecUILive == SpecUI /\ WF_vars(hlChk \/ tbChk)

(***************************************************************************)
(* The status view on the event bus (SpecStatus)                           *)
(***************************************************************************)
\* The events that arrive, each with one text.
NextStatus ==
  \/ \E t \in {<<"Move undone.">>} : onStatus("status:info", t)
  \/ \E t \in {<<"Undo failed", "no_moves">>} : onStatus("status:error", t)
  \/ \E t \in {<<>>} : onStatus("status:clear", t)
  \/ msgToggleChk

SpecStatus == InitUI /\ [][NextStatus]_vars

(***************************************************************************)
(* Claims about the views (SpecUI, SpecUILive, SpecStatus)                 *)
(***************************************************************************)
NewGameStarted == [type |-> "info", text |-> <<"New game started.">>]

\* C25: after a click on the New Game button the status view keeps exactly
\* one message, "New game started.", whatever it kept before: status:clear is
\* handled before status:info.
C25_NewGameLeavesOneMessage ==
  [][newBtn => (messages' = <<NewGameStarted>> /\ posted' = <<NewGameStarted>>)]_vars

\* The button is the third thing clicked, after an opponent was chosen (which
\* left a message) and the takeback box was cleared.
C25_Witness ==
  /\ handler = "newBtn"
  /\ clicks = 3
  /\ opponentEnabled
  /\ ~config.allow_takeback
  /\ messages = <<NewGameStarted>>

\* C27: the highlighted squares of the board view are none whenever
\* config.highlight_valid_moves is false, and when it is true and a square is
\* selected they are the legal destinations of the selected square, also
\* after the option was toggled while a square was selected.
C27_HighlightsFollowOption ==
  /\ ~config.highlight_valid_moves => highlightedTargets = {}
  /\ (config.highlight_valid_moves /\ selectedSquare # NoSquare) =>
       highlightedTargets = {m.to : m \in getLegalMoves(game, TRUE, selectedSquare)}

\* What the status view shows of its messages: the list under the box when
\* it is checked, nothing when it is not.
Displayed == IF showMessages THEN messages ELSE <<>>

\* What the status view keeps of the messages pushed since the last clear,
\* whether the box was checked or not: the newest MAX_MESSAGES of them.
NewestPosted ==
  IF Len(posted) > MAX_MESSAGES THEN SubSeq(posted, 1, MAX_MESSAGES) ELSE posted

\* C28: hiding messages deletes nothing. Whatever was pushed and cleared
\* while "Show Messages" was unchecked, when the box is checked the view
\* shows exactly what it would show had the box stayed checked throughout,
\* and a click on the box never changes the stored list.
C28_HidingDeletesNothing ==
  /\ [](messages = NewestPosted)
  /\ [](showMessages => Displayed = NewestPosted)
  /\ [][msgToggleChk => messages' = messages]_vars

\* The box is checked again as the eighth event, after six messages were
\* pushed with no clear after them, so that the sixth pushed the first out;
\* the one other event was the click that cleared the box.
C28_Witness ==
  /\ handler = "msgToggleChk"
  /\ showMessages
  /\ clicks = 8
  /\ Len(posted) = 6
  /\ Len(Displayed) = MAX_MESSAGES

\* The last operation of the game state was a move the player made on the
\* board, and it succeeded.
HumanMovePlayed == handler = "onSquareClick" /\ op = "applyMove" /\ out.success

\* The timing records of the moves applied with isComputer = true.
ComputerMoves == SelectSeq(moveTimings, LAMBDA t : t.isComputer)

\* C29: with a computer opponent enabled, every successful move the player
\* makes on the board is eventually followed by an opponent move that was
\* requested automatically and applied with isComputer = true; with the
\* opponent disabled no step applies such a move.
C29_OpponentAnswers ==
  /\ (opponentEnabled /\ HumanMovePlayed) ~> (ComputerMoves # <<>>)
  /\ [][~opponentEnabled => Len(ComputerMoves') <= Len(ComputerMoves)]_vars

(***************************************************************************)
(* Rays, capture flags and batch order (SpecEngine)                        *)
(***************************************************************************)
\* The step of a direction offset in ranks and files.
RankStep(direction) ==
  CASE direction \in {-9, -8, -7} -> -1
    [] direction \in {-1, 1} -> 0
    [] OTHER -> 1
FileStep(direction) ==
  CASE direction \in {-9, -1, 7} -> -1
    [] direction \in {-8, 8} -> 0
    [] OTHER -> 1

\* The squares of the line from sq in a direction, by rank and file and in
\* order of distance, up to the edge of the board or the first occupied
\* square, that square included.
LineFrom(sq, direction, piece_arr) ==
  LET dr == RankStep(direction)
      df == FileStep(direction)
      onBoard(k) == /\ get_rank(sq) + k * dr \in 0..7
                    /\ get_file(sq) + k * df \in 0..7
      at(k) == make_square(get_rank(sq) + k * dr, get_file(sq) + k * df)
      open(k) == \A j \in 1..(k - 1) : piece_arr[at(j)] = PIECE_NONE
      n == Cardinality({k \in 1..7 : onBoard(k) /\ open(k)})
  IN  [k \in 1..n |-> at(k)]

\* C31: for every start square, each of the eight direction offsets and the
\* occupancy of the board the scalar engine was called on, ray traversal
\* returns the squares of the line in
\* that direction, never one reached around an edge of the board, in order
\* of distance, ending at and including the first occupied square; a ray
\* blocked by the edge at once is the empty list.
C31_RaysFollowLines ==
  (op = "attack_maps" /\ via = "cpu")
    => \A sq \in Squares : \A i \in 1..Len(KingOffsets) :
         get_ray_attacks(sq, KingOffsets[i], piece_batch[1])
           = LineFrom(sq, KingOffsets[i], piece_batch[1])

\* C31 witness: on the starting position the ray north from a2 ends on the
\* pawn on a7, the ray east from h1 is empty and so is the ray north-east
\* from h4.
C31_Witness ==
  /\ op = "attack_maps"
  /\ via = "cpu"
  /\ piece_batch[1] = StartPieces
  /\ get_ray_attacks(8, 8, piece_batch[1]) = <<16, 24, 32, 40, 48>>
  /\ get_ray_attacks(7, 1, piece_batch[1]) = <<>>
  /\ get_ray_attacks(31, 9, piece_batch[1]) = <<>>

\* C32: in every record generate_moves returns, the capture flag (bit 1) is
\* set iff the destination holds a piece of the other side, and a bishop,
\* rook or queen moves along its lines no further than the first occupied
\* square.
C32_CaptureIffEnemyOnTarget ==
  op = "generate_moves"
    => \A k \in 1..Len(out) :
         /\ HasBit(out[k][4], FLAG_CAPTURE)
              <=> color_batch[1][out[k][2]] = 1 - stm_batch[1]
         /\ piece_batch[1][out[k][1]] \in {PIECE_BISHOP, PIECE_ROOK, PIECE_QUEEN}
              => Reaches(out[k][1], out[k][2], piece_batch[1], color_batch[1])

\* C32 witness: the white queen on d1 takes the pawn on d7 at the end of the
\* open d-file, with its own pawn next to it on e2 and the black king beyond
\* the pawn.
C32_Witness ==
  /\ op = "generate_moves"
  /\ stm_batch[1] = COLOR_WHITE
  /\ piece_batch[1][3] = PIECE_QUEEN
  /\ piece_batch[1][12] = PIECE_PAWN
  /\ piece_batch[1][60] = PIECE_KING
  /\ \E k \in 1..Len(out) : out[k] = <<3, 51, 0, FLAG_CAPTURE>>
  /\ \A k \in 1..Len(out) : out[k][1] = 3 => out[k][2] # 12

\* C33: in the concatenated move output of a batch the board index never
\* decreases from one record to the next, every index lies in 0..N-1, and
\* the records of one board are those of the single-position generator in
\* its order.
C33_BatchMovesInBoardOrder ==
  (op = "generate_moves_batch" /\ out.ok)
    => /\ \A k \in 1..(Len(out.moves) - 1) : out.moves[k][1] <= out.moves[k + 1][1]
       /\ \A k \in 1..Len(out.moves) : out.moves[k][1] \in 0..(Len(piece_batch) - 1)
       /\ \A i \in 1..Len(piece_batch) : BoardMoves(out.moves, i - 1) = SingleMoves(i)

\* C33 witness: a batch of two boards that both have several moves.
C33_Witness ==
  /\ op = "generate_moves_batch"
  /\ out.ok
  /\ Len(piece_batch) = 2
  /\ Len(SingleMoves(1)) > 1
  /\ Len(SingleMoves(2)) > 1
  /\ SingleMoves(1) # SingleMoves(2)
  /\ out.moves[Len(out.moves)][1] = 1

(***************************************************************************)
(* The status cache and the selection of the board view (SpecGame, SpecUI) *)
(***************************************************************************)
\* C34: after every newGame, applyMove, requestUndo, updateConfig and
\* setOpponent, successful or not, the status cached in gameState is the
\* engine's status of the current position: turn, check, checkmate,
\* stalemate and draw.
C34_CachedStatusIsCurrent == status = getStatus(game)

\* C34 witness: a move has just given check, so that the cached status is
\* not the one of the position before it.
C34_Witness ==
  /\ op = "applyMove"
  /\ out.success
  /\ status.isCheck
  /\ beforeMove # <<>>
  /\ ~beforeMove[1].status.isCheck

\* C35: whenever a square is selected in the board view, the side to move
\* has a legal move from it in the current position: a click selects only a
\* square with legal moves, and every change of the position (move, undo,
\* new game) clears selection and highlights before the next click.
C35_SelectedSquareCanMove ==
  /\ selectedSquare # NoSquare => getLegalMoves(game, TRUE, selectedSquare) # {}
  /\ selectedSquare = NoSquare => highlightedTargets = {}

\* C35 witness: e7 is selected after f2-f3 was played on the board.
C35_Witness ==
  /\ selectedSquare = 52
  /\ handler = "onSquareClick"
  /\ Len(getHistory(game)) = 1
  /\ status.turn = "b"


(***************************************************************************)
(* The "Use GPU" box and its requests (SpecGpuBox)                         *)
(***************************************************************************)

\* The page is loaded against a backend with or without a GPU, in either
\* mode; the first status request is on its way.
InitGpuBox ==
  /\ InitFrontend
  /\ loadReturnsBoolean
  /\ InitViews
  /\ GPU \in BOOLEAN
  /\ force_cpu_mode \in BOOLEAN
  /\ piece_batch = <<>>
  /\ color_batch = <<>>
  /\ stm_batch = <<>>
  /\ via = "none"
  /\ previous = <<"none", <<>>>>
  /\ budget = 0
  /\ op = "newGame"
  /\ out = [threw |-> FALSE]

\* The player clicks the box or a box that draws the controls again, the
\* backend serves a request, a request fails, and the awaiting handlers go on,
\* in any order.
NextGpuBox ==
  \/ gpuChk_onchange
  \/ hlChk
  \/ \E i \in 1..Len(requests) : served(i)
  \/ \E i \in 1..Len(requests) : fetchFails(i)
  \/ \E i \in 1..Len(requests) : toggleReturns(i)
  \/ \E i \in 1..Len(requests) : toggleThrows(i)
  \/ \E i \in 1..Len(requests) : loadGPUStatus(i)

SpecGpuBox == InitGpuBox /\ [][NextGpuBox]_vars

\* C36: whenever no request of the "Use GPU" box is in flight and the box is
\* on the page, the box shows the gpu_enabled value of the backend.
C36_BoxShowsBackendMode ==
  (requests = <<>> /\ BoxDrawn) => gpuChk = GpuEnabled


(***************************************************************************)
(* The event bus (SpecBus)                                                 *)
(***************************************************************************)

InitBus == InitGame /\ loadReturnsBoolean /\ handlers = NoHandlers

\* The callers subscribe, unsubscribe and emit in any order.
NextBus ==
  \/ \E e \in BusEvents, fn \in BusHandlers : on(e, fn)
  \/ \E e \in BusEvents, fn \in BusHandlers : off(e, fn)
  \/ \E e \in BusEvents, p \in Payloads : emit(e, p)

SpecBus == InitBus /\ [][NextBus]_vars

\* The handlers of an event, in the order the Set holds them.
Registered(map, event) == IF event \in DOMAIN map THEN map[event] ELSE <<>>

IsRegistered(map, event, fn) ==
  \E k \in 1..Len(Registered(map, event)) : Registered(map, event)[k] = fn

TimesInvoked(fn) == Cardinality({k \in 1..Len(invoked) : invoked[k].fn = fn})

\* C37: an emit calls the handlers registered for its event, each exactly
\* once with the payload and in the order they were registered, a throwing
\* handler among them or not; it calls no handler registered only for other
\* events and no exception reaches the emitter. A newly registered handler
\* goes behind the ones registered before it, whose order stays.
C37_EmitCallsEachOnceInOrder ==
  /\ [](busOp.name = "emit" =>
          /\ ~busOp.threw
          /\ Len(invoked) = Len(Registered(handlers, busOp.event))
          /\ \A k \in 1..Len(invoked) :
               invoked[k] = [fn |-> Registered(handlers, busOp.event)[k],
                             payload |-> busOp.payload]
          /\ \A fn \in BusHandlers :
               TimesInvoked(fn) =
                 IF IsRegistered(handlers, busOp.event, fn) THEN 1 ELSE 0)
  /\ [][(busOp'.name = "on" /\ ~IsRegistered(handlers, busOp'.event, busOp'.fn))
          => Registered(handlers', busOp'.event) =
               Append(Registered(handlers, busOp'.event), busOp'.fn)]_vars

\* C37: an emit with the throwing handler registered second of three, and
\* other handlers in another order on the other event.
C37_Witness ==
  /\ busOp.name = "emit"
  /\ busOp.event = "status:info"
  /\ Registered(handlers, "status:info") = <<"render", "faulty", "pushMessage">>
  /\ Registered(handlers, "configChanged") = <<"pushMessage">>
  /\ invoked = <<[fn |-> "render", payload |-> 1], [fn |-> "faulty", payload |-> 1],
                 [fn |-> "pushMessage", payload |-> 1]>>


NoDuplicates(set) == \A k, l \in 1..Len(set) : set[k] = set[l] => k = l

\* C40: the handlers of an event form a set. Registering a handler that is
\* registered changes nothing, so an emit calls it once; off takes the handler
\* out of the event and leaves the other registrations, and no emit calls it
\* until it is registered again; off for a handler that is not registered or
\* for an event never subscribed, and emit for an event without handlers,
\* leave the subscriptions as they are, the emit calling nothing.
C40_SubscriptionsAreSets ==
  /\ [](\A e \in DOMAIN handlers : NoDuplicates(handlers[e]))
  /\ [](busOp.name = "emit" =>
          \A fn \in BusHandlers :
            /\ TimesInvoked(fn) <= 1
            /\ ~IsRegistered(handlers, busOp.event, fn) => TimesInvoked(fn) = 0)
  /\ [][(busOp'.name = "on" /\ IsRegistered(handlers, busOp'.event, busOp'.fn))
          => handlers' = handlers]_vars
  /\ [][busOp'.name = "off" =>
          /\ ~IsRegistered(handlers', busOp'.event, busOp'.fn)
          /\ \A e \in BusEvents, fn \in BusHandlers :
               (e # busOp'.event \/ fn # busOp'.fn) =>
                 (IsRegistered(handlers', e, fn) <=> IsRegistered(handlers, e, fn))
          /\ ~IsRegistered(handlers, busOp'.event, busOp'.fn) =>
               (handlers' = handlers /\ invoked' = invoked)]_vars
  /\ [][(busOp'.name = "emit" /\ Registered(handlers, busOp'.event) = <<>>)
          => (handlers' = handlers /\ invoked' = <<>>)]_vars

\* C40: "render" was registered for status:info a second time, after
\* "faulty", and is still the first of the two.
C40_Witness ==
  /\ busOp = [name |-> "on", event |-> "status:info", fn |-> "render", payload |-> 0,
              threw |-> FALSE]
  /\ Registered(handlers, "status:info") = <<"render", "faulty">>
  /\ "configChanged" \notin DOMAIN handlers


\* C38: after any sequence of status:info, status:error and status:clear the
\* status view stores at most MAX_MESSAGES messages: the newest of the
\* messages pushed since the last clear, as many as there are up to
\* MAX_MESSAGES, the newest first.
C38_StoresNewestFive ==
  /\ Len(messages) <= MAX_MESSAGES
  /\ Len(messages) = (IF Len(posted) < MAX_MESSAGES THEN Len(posted) ELSE MAX_MESSAGES)
  /\ \A k \in 1..Len(messages) : messages[k] = posted[k]

\* C38: seven messages of both types were pushed since the last clear, the
\* last of eight events among them: the two oldest are gone.
C38_Witness ==
  /\ clicks = 8
  /\ handler = "status:info"
  /\ Len(posted) = 7
  /\ Len(messages) = MAX_MESSAGES
  /\ messages[1].type = "info"
  /\ messages[2].type = "error"
  /\ posted[7].type = "error"


(***************************************************************************)
(* Clicks on a board with pawns before their last rank (SpecPromotion)     *)
(***************************************************************************)

\* r3k3/8/8/8/8/8/p7/4K3 b - - 0 1
FenBlackPromotion ==
  << << <<"r", "3", "k", "3">>, <<"8">>, <<"8">>, <<"8">>, <<"8">>, <<"8">>,
        <<"p", "7">>, <<"4", "K", "3">> >>,
     "b", <<"-">>, <<"-">>, 0, 1 >>

\* The page with a game started from a position in which the side to move
\* has a pawn one step from its last rank.
InitPromotion ==
  /\ loadReturnsBoolean = TRUE
  /\ \E fen \in {FenPromotionCastleEnPassant, FenBlackPromotion} :
       game = Chess_load(fen)
  /\ config = mergeConfig(getDefaultConfig, getDefaultConfig)
  /\ status = getStatus(game)
  /\ opponentEnabled = FALSE
  /\ opponentProfile = "random"
  /\ now = 1
  /\ moveStartTime = 1
  /\ moveTimings = <<>>
  /\ emitted = <<emitState(game, status)>>
  /\ beforeMove = <<>>
  /\ InitViews
  /\ BackendIdle
  /\ budget = 0
  /\ op = "newGame"
  /\ out = [threw |-> FALSE]

\* The player clicks on a1, a2, a7 and a8.
NextPromotion == \E square \in {0, 8, 48, 56} : onSquareClick(square)

SpecPromotion == InitPromotion /\ [][NextPromotion]_vars

\* fenUtils: indexToSquare(row, col)
indexToSquare(row, col) ==
  <<FileNames[col + 1], <<"8", "7", "6", "5", "4", "3", "2", "1">>[row + 1]>>

\* The piece fenToBoard has at the place indexToSquare names as the square.
PieceAt(fen, sq) ==
  LET at == CHOOSE rc \in (0..7) \X (0..7) : indexToSquare(rc[1], rc[2]) = algebraic(sq)
  IN  fenToBoard(fen)[at[1] + 1][at[2] + 1]

\* C39: a click that calls applyMove passes a promotion piece exactly when
\* the piece on the selected square is a pawn and the clicked square is on
\* rank 8 for a white pawn, on rank 1 for a black one, the squares read off
\* the board as indexToSquare names them; the piece passed is q, r, b or n: the
\* answer of the prompt in lower case when that is one of the four, q when
\* the prompt was cancelled or the answer is something else.
C39_PromotionPassedForPawnOnLastRank ==
  [][(handler' = "onSquareClick" /\ clicks' # clicks /\ passed'.called) =>
       /\ passed'.from = selectedSquare
       /\ (passed'.promotion # "-") <=>
            \/ /\ PieceAt(getFen(game), passed'.from) = "P"
               /\ algebraic(passed'.to)[2] = "8"
            \/ /\ PieceAt(getFen(game), passed'.from) = "p"
               /\ algebraic(passed'.to)[2] = "1"
       /\ (passed'.promotion # "-") =>
            /\ passed'.promotion \in {"q", "r", "b", "n"}
            /\ passed'.typed \in {"q", "r", "b", "n"} => passed'.promotion = passed'.typed
            /\ passed'.typed = "R" => passed'.promotion = "r"
            /\ passed'.typed = "N" => passed'.promotion = "n"
            /\ passed'.typed \in {Cancelled, "", "k"} => passed'.promotion = "q"]_vars

\* C39: the black pawn on a2 was selected, a1 was clicked, the player typed
\* N and the pawn became a knight.
C39_Witness ==
  /\ handler = "onSquareClick"
  /\ passed = [called |-> TRUE, from |-> 8, to |-> 0, typed |-> "N", promotion |-> "n"]
  /\ out.success
  /\ game.board[0] = "n"

====
